---- MODULE Spec2Model ----
(***************************************************************************)
(* Wound-analysis services of yaratakip_analiz: the four scoring variants  *)
(* (api_server.py, lightweight_model.py + lightweight_api.py,              *)
(* pure_python_api.py, wound_analysis_model.py) and their HTTP handlers.   *)
(*                                                                         *)
(* Units.  A score s is held as the integer 100*s (7010 is 70.1); a        *)
(* confidence c as the integer 10000*c (7500 is 0.75); percentages and     *)
(* brightness as 100 times their value.                                    *)
(*                                                                         *)
(* Strings.  An image string is a sequence of tokens.  A token stands for  *)
(* a run of n characters: one comma, one character outside the base64      *)
(* alphabet, or n base64 characters cycling through d distinct ones.       *)
(***************************************************************************)
EXTENDS Integers, Sequences, FiniteSets, TLC

VARIABLES request, response, call, probe, model, inflight

vars == <<request, response, call, probe, model, inflight>>

\* Longest image string, in tokens.
MaxTokens == 3

Min(a, b) == IF a < b THEN a ELSE b
Max(a, b) == IF a > b THEN a ELSE b

---------------------------------------------------------------------------
(* Outcomes of a call: a returned value or a raised exception.             *)

Ok(v) == [exc |-> "none", val |-> v]
Raise(e) == [exc |-> e, val |-> <<>>]

---------------------------------------------------------------------------
(* Strings                                                                 *)

TComma == [k |-> "comma", n |-> 1, d |-> 1]
TJunk == [k |-> "junk", n |-> 1, d |-> 1]
TChar == [k |-> "b64", n |-> 1, d |-> 1]
TQuad == [k |-> "b64", n |-> 4, d |-> 4]
TMedium == [k |-> "b64", n |-> 133336, d |-> 36]
TLarge == [k |-> "b64", n |-> 266668, d |-> 51]

Tokens == {TComma, TJunk, TChar, TQuad, TMedium, TLarge}

Strings == UNION {[1..n -> Tokens] : n \in 0..MaxTokens}

RECURSIVE StrLen(_)
StrLen(s) == IF s = <<>> THEN 0 ELSE Head(s).n + StrLen(Tail(s))

HasComma(s) == \E i \in 1..Len(s) : s[i].k = "comma"

\* str.split(','): the parts between the commas, Len = number of commas + 1.
RECURSIVE SplitFrom(_, _)
SplitFrom(s, cur) ==
    IF s = <<>> THEN <<cur>>
    ELSE IF Head(s).k = "comma" THEN <<cur>> \o SplitFrom(Tail(s), <<>>)
    ELSE SplitFrom(Tail(s), Append(cur, Head(s)))

Split(s) == SplitFrom(s, <<>>)

\* s[:m]: the first m characters.
RECURSIVE Prefix(_, _)
Prefix(s, m) ==
    IF s = <<>> \/ m <= 0 THEN <<>>
    ELSE IF Head(s).n <= m THEN <<Head(s)>> \o Prefix(Tail(s), m - Head(s).n)
    ELSE <<[k |-> Head(s).k, n |-> m, d |-> Min(Head(s).d, m)]>>

\* The characters of a token: base64 characters are 1..64, ',' is 65, '%' is 66.
TokChars(t) ==
    IF t.k = "comma" THEN {65} ELSE IF t.k = "junk" THEN {66} ELSE 1..Min(t.d, t.n)

Chars(s) == UNION {TokChars(s[i]) : i \in 1..Len(s)}

RECURSIVE B64Count(_)
B64Count(s) ==
    IF s = <<>> THEN 0
    ELSE (IF Head(s).k = "b64" THEN Head(s).n ELSE 0) + B64Count(Tail(s))

\* base64.b64decode(s) with validate=False: characters outside the alphabet are
\* discarded, then the count of data characters must be a multiple of four
\* (the strings here carry no '=' padding).  The value is the number of bytes.
\* A decoder that pads what it is given instead of rejecting it.
b64decode_NeverRejects(s) == Ok((B64Count(s) \div 4) * 3)

b64decode(s) ==
    IF B64Count(s) % 4 /= 0 THEN Raise("binascii.Error")
    ELSE Ok((B64Count(s) \div 4) * 3)

---------------------------------------------------------------------------
(* Images: what PIL and OpenCV make of the decoded bytes.                  *)

NotAnImage == [mode |-> "none"]

\* PIL's Image.open on `bytes` bytes whose content is `content`: no image file
\* is shorter than a few dozen bytes.
ImageOpen(bytes, content) ==
    IF bytes < 26 \/ content.mode = "none" THEN Raise("UnidentifiedImageError")
    ELSE Ok(content)

\* A decoded picture.  px holds the pixels the working-resolution copy is made
\* of (RGB triples, or grey levels in mode "L").  cv holds what the OpenCV
\* primitives measure on it: red_hsv the percentage of pixels inRange of the
\* two red hue bands, edge the percentage of Canny edge pixels, variance the
\* grey variance; contour whether findContours finds a skin contour and
\* wound_area the pixels of the filled mask; red_area, r_mean and g_mean the
\* red pixels and channel means inside the mask; thresh_contour whether the
\* binary threshold yields a contour; hull_n, defects (-1 for None), area and
\* perimeter the convexity measurements of the contour; lines the summed
\* HoughLinesP segment length (-1 for None).
PicBright ==
    [mode |-> "RGB", size |-> <<640, 480>>,
     px |-> <<<<220, 220, 220>>, <<220, 220, 220>>, <<220, 220, 220>>, <<220, 220, 220>>,
              <<220, 220, 220>>, <<220, 220, 220>>, <<220, 220, 220>>, <<220, 220, 220>>>>,
     cv |-> [red_hsv |-> 0, edge |-> 0, variance |-> 0,
             contour |-> FALSE, wound_area |-> 0, red_area |-> 0,
             r_mean |-> 0, g_mean |-> 0, thresh_contour |-> TRUE,
             hull_n |-> 4, defects |-> -1, area |-> 307200, perimeter |-> 2240,
             lines |-> -1]]

PicSpot ==
    [mode |-> "RGB", size |-> <<64, 64>>,
     px |-> <<<<200, 50, 50>>, <<120, 120, 120>>, <<120, 120, 120>>, <<120, 120, 120>>,
              <<120, 120, 120>>, <<120, 120, 120>>, <<120, 120, 120>>, <<120, 120, 120>>>>,
     cv |-> [red_hsv |-> 1250, edge |-> 1500, variance |-> 1500,
             contour |-> FALSE, wound_area |-> 0, red_area |-> 0,
             r_mean |-> 0, g_mean |-> 0, thresh_contour |-> FALSE,
             hull_n |-> 0, defects |-> -1, area |-> 0, perimeter |-> 0,
             lines |-> -1]]

PicWound ==
    [mode |-> "RGB", size |-> <<300, 300>>,
     px |-> <<<<180, 60, 60>>, <<180, 60, 60>>, <<60, 50, 50>>, <<60, 50, 50>>,
              <<60, 50, 50>>, <<60, 50, 50>>, <<60, 50, 50>>, <<60, 50, 50>>>>,
     cv |-> [red_hsv |-> 6250, edge |-> 4000, variance |-> 2500,
             contour |-> TRUE, wound_area |-> 30000, red_area |-> 6000,
             r_mean |-> 120, g_mean |-> 100, thresh_contour |-> FALSE,
             hull_n |-> 6, defects |-> 5000, area |-> 28000, perimeter |-> 800,
             lines |-> 1200]]

PicGrey ==
    [mode |-> "L", size |-> <<300, 300>>,
     px |-> <<40, 40, 40, 40, 40, 40, 40, 40>>,
     cv |-> [red_hsv |-> 0, edge |-> 0, variance |-> 0,
             contour |-> FALSE, wound_area |-> 0, red_area |-> 0,
             r_mean |-> 0, g_mean |-> 0, thresh_contour |-> FALSE,
             hull_n |-> 0, defects |-> -1, area |-> 0, perimeter |-> 0,
             lines |-> -1]]

\* Healed skin: a skin contour is found, no edge inside it makes a line.
PicSmooth ==
    [mode |-> "RGB", size |-> <<300, 300>>,
     px |-> <<<<140, 125, 120>>, <<140, 125, 120>>, <<140, 125, 120>>, <<140, 125, 120>>,
              <<140, 125, 120>>, <<140, 125, 120>>, <<140, 125, 120>>, <<140, 125, 120>>>>,
     cv |-> [red_hsv |-> 0, edge |-> 200, variance |-> 300,
             contour |-> TRUE, wound_area |-> 20000, red_area |-> 0,
             r_mean |-> 140, g_mean |-> 125, thresh_contour |-> TRUE,
             hull_n |-> 5, defects |-> -1, area |-> 20000, perimeter |-> 600,
             lines |-> -1]]

Images == {PicBright, PicSpot, PicWound, PicGrey, PicSmooth}

\* Image.resize: the copy has the given size and samples the same picture.
Resize(image, size) == [image EXCEPT !.size = size]

\* Image.convert('RGB') of a grey image: every channel takes the grey level.
ConvertRGB(image) ==
    IF image.mode = "RGB" THEN image
    ELSE [image EXCEPT !.mode = "RGB",
                       !.px = [i \in 1..Len(image.px) |-> <<image.px[i], image.px[i], image.px[i]>>]]

---------------------------------------------------------------------------
(* Noise.  random.normalvariate(mu, sigma) and numpy.random.normal(mu,     *)
(* sigma) return mu + z*sigma for a standard normal z, which is unbounded; *)
(* z is drawn from ZDraws, in hundredths.  random.random() is drawn from   *)
(* UDraws, in hundredths, and is below 1.                                  *)

ZDraws == {-1000, -100, -83, 13, 250, 1000}

UDraws == {0, 37, 99}

Normal(mu, sigma, z) == mu + (z * sigma) \div 100

\* round(x, 1) of a score and round(c, 2) of a confidence: to the nearest
\* multiple of `unit`, ties to the even multiple.
RoundTo(x, unit) ==
    LET q == x \div unit
        r == x % unit
    IN  IF 2 * r < unit THEN q * unit
        ELSE IF 2 * r > unit THEN (q + 1) * unit
        ELSE IF q % 2 = 0 THEN q * unit ELSE (q + 1) * unit

---------------------------------------------------------------------------
(* api_server.py: the PIL variant                                          *)

IsRedPixel(p) == p[1] > p[2] + 20 /\ p[1] > p[3] + 20 /\ p[1] > 100

RECURSIVE SumSeq(_)
SumSeq(xs) == IF xs = <<>> THEN 0 ELSE Head(xs) + SumSeq(Tail(xs))

RedCount(pixels) ==
    SumSeq([i \in 1..Len(pixels) |-> IF IsRedPixel(pixels[i]) THEN 1 ELSE 0])

RedIntensitySum(pixels) ==
    SumSeq([i \in 1..Len(pixels) |->
               IF IsRedPixel(pixels[i]) THEN pixels[i][1] * 100 ELSE 0])

BrightnessSum(pixels) ==
    SumSeq([i \in 1..Len(pixels) |->
               ((pixels[i][1] + pixels[i][2] + pixels[i][3]) * 100) \div 3])

ColorStats(red_count, red_intensity_sum, brightness_sum, total_pixels, size) ==
    [red_percentage |-> (red_count * 10000) \div total_pixels,
     avg_brightness |-> brightness_sum \div total_pixels,
     red_intensity |-> red_intensity_sum \div Max(red_count, 1),
     working_size |-> size]

ColorsOf(img) ==
    ColorStats(RedCount(img.px), RedIntensitySum(img.px), BrightnessSum(img.px),
               Len(img.px), img.size)

analyze_colors_pil(image) == ColorsOf(ConvertRGB(Resize(image, <<64, 64>>)))

\* The status evaluation inlined in simple_wound_analysis_no_cv.
NoCvCritical ==
    <<"Acil tibbi mudahale gerekebilir", "Hekiminizle derhal iletisime gecin",
      "Enfeksiyon riski yuksek">>
NoCvWarning ==
    <<"Yakin takip gerekli", "Ilac kullaniminizi kontrol edin",
      "Hijyen kurallarina dikkat edin", "Hekiminizle iletisime gecin">>
NoCvGood ==
    <<"Iyilesme sureci normal gorunuyor", "Duzenli takip devam edin",
      "Onerilen bakim yontemlerini uygulayin">>

\* The classifier with its comparisons made non-strict.
NoCvStatus_NonStrict(inflammation_score, swelling_score, closure_score) ==
    IF inflammation_score >= 7000 \/ swelling_score >= 6000
    THEN [status |-> "critical", recommendations |-> NoCvCritical]
    ELSE IF inflammation_score >= 5000 \/ swelling_score >= 4000 \/ closure_score <= 5000
    THEN [status |-> "warning", recommendations |-> NoCvWarning]
    ELSE [status |-> "good", recommendations |-> NoCvGood]

NoCvStatus(inflammation_score, swelling_score, closure_score) ==
    IF inflammation_score > 7000 \/ swelling_score > 6000
    THEN [status |-> "critical", recommendations |-> NoCvCritical]
    ELSE IF inflammation_score > 5000 \/ swelling_score > 4000 \/ closure_score < 5000
    THEN [status |-> "warning", recommendations |-> NoCvWarning]
    ELSE [status |-> "good", recommendations |-> NoCvGood]

\* A fallback whose closure score is under the warning threshold.
NoCvFallback_LowClosure ==
    [inflammation_score |-> 3000, swelling_score |-> 2500, closure_score |-> 4500,
     overall_status |-> "good",
     recommendations |-> <<"Analiz tamamlandi", "Duzenli takip onerilir",
                           "Herhangi bir endiseniz varsa hekiminize danisin">>,
     confidence |-> 6000,
     processed_regions |-> "fallback_analysis"]

NoCvFallback ==
    [inflammation_score |-> 3000, swelling_score |-> 2500, closure_score |-> 7500,
     overall_status |-> "good",
     recommendations |-> <<"Analiz tamamlandi", "Duzenli takip onerilir",
                           "Herhangi bir endiseniz varsa hekiminize danisin">>,
     confidence |-> 6000,
     processed_regions |-> "fallback_analysis"]

\* The scores of simple_wound_analysis_no_cv from the colour statistics and
\* the three normalvariate draws.
\* The scores of simple_wound_analysis_no_cv without their upper clips.
NoCvScores_NoUpperClip(color_stats, z) ==
    [inflammation_score |->
         Max(1500, Min(color_stats.red_percentage * 3, 6000) + Normal(2000, 1200, z[1])),
     swelling_score |->
         Max(1000, (IF color_stats.avg_brightness > 15000 THEN 2000
                    ELSE IF color_stats.avg_brightness < 8000 THEN 5000 ELSE 3000)
                   + Normal(1500, 1000, z[2])),
     closure_score |->
         Max(3000, 9000 - (color_stats.red_percentage * 2) + Normal(1000, 800, z[3]))]

NoCvScores(color_stats, z) ==
    LET red_percentage == color_stats.red_percentage
        brightness == color_stats.avg_brightness
        inflammation_base == Min(red_percentage * 3, 6000)
        swelling_base == IF brightness > 15000 THEN 2000
                         ELSE IF brightness < 8000 THEN 5000 ELSE 3000
        closure_base == 9000 - (red_percentage * 2)
    IN  [inflammation_score |->
             Min(Max(1500, inflammation_base + Normal(2000, 1200, z[1])), 9500),
         swelling_score |->
             Min(Max(1000, swelling_base + Normal(1500, 1000, z[2])), 8500),
         closure_score |->
             Min(Max(3000, closure_base + Normal(1000, 800, z[3])), 9800)]

\* A trace of one analysis call: the payload that was decoded, the picture it
\* held, the unrounded scores, the path that produced the result and, on the
\* fallback path, the exception the except clause caught.
Trace(fn, path, payload, pic, raw) ==
    [fn |-> fn, path |-> path, payload |-> payload, pic |-> pic, raw |-> raw,
     caught |-> "none"]

NoPayload == <<[k |-> "none", n |-> 0, d |-> 0]>>
NoRaw == <<>>

FallbackTrace(fn, caught) ==
    [fn |-> fn, path |-> "fallback", payload |-> NoPayload, pic |-> NotAnImage,
     raw |-> NoRaw, caught |-> caught]

NoCvResult(s, st) ==
    [inflammation_score |-> RoundTo(s.inflammation_score, 10),
     swelling_score |-> RoundTo(s.swelling_score, 10),
     closure_score |-> RoundTo(s.closure_score, 10),
     overall_status |-> st.status,
     recommendations |-> st.recommendations,
     confidence |-> 7500,
     processed_regions |-> "pil_color_analysis"]

NoCvAnalysed(payload, image, s) ==
    Ok([result |-> NoCvResult(s, NoCvStatus(s.inflammation_score, s.swelling_score,
                                            s.closure_score)),
        trace |-> Trace("simple_wound_analysis_no_cv", "normal", payload, image,
                        <<s.inflammation_score, s.swelling_score, s.closure_score>>)])

NoCvOpened(payload, image, z) ==
    IF image.exc /= "none" THEN Raise(image.exc)
    ELSE NoCvAnalysed(payload, image.val, NoCvScores(analyze_colors_pil(image.val), z))

NoCvDecoded(payload, image_bytes, content, z) ==
    IF image_bytes.exc /= "none" THEN Raise(image_bytes.exc)
    ELSE NoCvOpened(payload, ImageOpen(image_bytes.val, content), z)

\* image_data.split(',')[1]: IndexError when the string holds no comma.
NoCvParts(parts, content, z) ==
    IF Len(parts) < 2 THEN Raise("IndexError")
    ELSE NoCvDecoded(parts[2], b64decode(parts[2]), content, z)

\* The try block of simple_wound_analysis_no_cv.
NoCvTry(image_data, content, z) == NoCvParts(Split(image_data), content, z)

\* `except Exception` of simple_wound_analysis_no_cv: every exception of the
\* try block becomes the fixed fallback.
NoCvExcept(t) ==
    IF t.exc /= "none"
    THEN Ok([result |-> NoCvFallback,
             trace |-> FallbackTrace("simple_wound_analysis_no_cv", t.exc)])
    ELSE t

simple_wound_analysis_no_cv(image_data, content, z) ==
    NoCvExcept(NoCvTry(image_data, content, z))

---------------------------------------------------------------------------
(* lightweight_model.py and lightweight_api.py: the OpenCV-lite variant    *)

\* cv2.cvtColor with a colour conversion code raises on an array that has no
\* channel axis (a grey or palette picture decoded to two dimensions).
CvtColor(image) ==
    IF image.mode /= "RGB" THEN Raise("cv2.error") ELSE Ok(image)

LiteRedness(red_percentage, z) ==
    Max(1000, Min(Min(red_percentage * 4, 10000) + Normal(0, 800, z), 9500))

\* LightweightWoundAnalyzer.detect_redness
LightweightDetectRedness(image, z) ==
    IF CvtColor(image).exc /= "none" THEN Raise("cv2.error")
    ELSE Ok(LiteRedness(image.cv.red_hsv, z))

LiteSwelling(edge_density, z) ==
    Max(1500, Min(Min(edge_density * 3, 8000) + Normal(0, 1000, z), 8500))

\* LightweightWoundAnalyzer.detect_swelling
LightweightDetectSwelling(image, z) ==
    IF CvtColor(image).exc /= "none" THEN Raise("cv2.error")
    ELSE Ok(LiteSwelling(image.cv.edge, z))

LiteClosure(variance, z) ==
    Max(2000, Min(IF variance > 2000 THEN Normal(3500, 1500, z)
                  ELSE IF variance > 1000 THEN Normal(6500, 1200, z)
                  ELSE Normal(8500, 800, z), 9800))

\* LightweightWoundAnalyzer.detect_closure
LightweightDetectClosure(image, z) ==
    IF CvtColor(image).exc /= "none" THEN Raise("cv2.error")
    ELSE Ok(LiteClosure(image.cv.variance, z))

LiteCritical ==
    <<"Acil tibbi mudahale gerekebilir", "Hekiminizle iletisime gecin",
      "Enfeksiyon riski yuksek">>
LiteWarning ==
    <<"Yakin takip gerekli", "Ilac kullaniminizi kontrol edin",
      "Hijyen kurallarina dikkat edin">>
LiteGood ==
    <<"Iyilesme sureci normal gorunuyor", "Duzenli takip devam edin",
      "Onerilen bakim yontemlerini uygulayin">>

\* LightweightWoundAnalyzer._evaluate_status
\* A classifier that puts the warning list together from the conditions met.
LightweightEvaluateStatus_AssemblesList(inflammation, swelling, closure) ==
    IF inflammation > 7000 \/ swelling > 6000
    THEN [status |-> "critical", recommendations |-> LiteCritical]
    ELSE IF inflammation > 5000 \/ swelling > 4000 \/ closure < 5000
    THEN [status |-> "warning",
          recommendations |->
              (IF inflammation > 5000 THEN <<"Yakin takip gerekli">> ELSE <<>>)
              \o (IF swelling > 4000 THEN <<"Ilac kullaniminizi kontrol edin">> ELSE <<>>)
              \o (IF closure < 5000 THEN <<"Hijyen kurallarina dikkat edin">> ELSE <<>>)]
    ELSE [status |-> "good", recommendations |-> LiteGood]

LightweightEvaluateStatus(inflammation, swelling, closure) ==
    IF inflammation > 7000 \/ swelling > 6000
    THEN [status |-> "critical", recommendations |-> LiteCritical]
    ELSE IF inflammation > 5000 \/ swelling > 4000 \/ closure < 5000
    THEN [status |-> "warning", recommendations |-> LiteWarning]
    ELSE [status |-> "good", recommendations |-> LiteGood]

\* The fallback WoundAnalysisResult of LightweightWoundAnalyzer.analyze_wound;
\* the dataclass has no processed_regions field.
LiteFallback ==
    [inflammation_score |-> 2500, swelling_score |-> 2000, closure_score |-> 7500,
     overall_status |-> "good",
     recommendations |-> <<"Iyilesme sureci normal gorunuyor", "Duzenli takip devam edin">>,
     confidence |-> 6000]

\* confidence = min(0.7 + closure_score / 200, 0.95), rounded to two places.
\* A confidence that starts at 0.5 instead of 0.7.
LiteConfidence_LowBase(closure_score) ==
    RoundTo(Min(5000 + closure_score \div 2, 9500), 100)

LiteConfidence(closure_score) == RoundTo(Min(7000 + closure_score \div 2, 9500), 100)

LiteResult(i, s, c, st) ==
    [inflammation_score |-> RoundTo(i, 10),
     swelling_score |-> RoundTo(s, 10),
     closure_score |-> RoundTo(c, 10),
     overall_status |-> st.status,
     recommendations |-> st.recommendations,
     confidence |-> LiteConfidence(c)]

LiteAnalysed(payload, image, i, s, c) ==
    IF i.exc /= "none" \/ s.exc /= "none" \/ c.exc /= "none" THEN Raise("cv2.error")
    ELSE Ok([result |-> LiteResult(i.val, s.val, c.val,
                                   LightweightEvaluateStatus(i.val, s.val, c.val)),
             trace |-> Trace("LightweightWoundAnalyzer.analyze_wound", "normal", payload,
                             image, <<i.val, s.val, c.val>>)])

\* The picture resized to 224x224; with three dimensions its channels are
\* swapped to BGR, then the three detectors run on it.
LiteOpened(payload, image, z) ==
    IF image.exc /= "none" THEN Raise(image.exc)
    ELSE LiteAnalysed(payload, Resize(image.val, <<224, 224>>),
                      LightweightDetectRedness(Resize(image.val, <<224, 224>>), z[1]),
                      LightweightDetectSwelling(Resize(image.val, <<224, 224>>), z[2]),
                      LightweightDetectClosure(Resize(image.val, <<224, 224>>), z[3]))

LiteDecoded(payload, image_bytes, content, z) ==
    IF image_bytes.exc /= "none" THEN Raise(image_bytes.exc)
    ELSE LiteOpened(payload, ImageOpen(image_bytes.val, content), z)

LiteParts(parts, content, z) ==
    IF Len(parts) < 2 THEN Raise("IndexError")
    ELSE LiteDecoded(parts[2], b64decode(parts[2]), content, z)

\* The try block of LightweightWoundAnalyzer.analyze_wound.
LiteTry(image_data, content, z) == LiteParts(Split(image_data), content, z)

\* An except clause that catches the decoding errors only.
LiteExcept_DecodeErrorsOnly(t) ==
    IF t.exc \in {"IndexError", "binascii.Error", "UnidentifiedImageError"}
    THEN Ok([result |-> LiteFallback,
             trace |-> FallbackTrace("LightweightWoundAnalyzer.analyze_wound", t.exc)])
    ELSE t

LiteExcept(t) ==
    IF t.exc /= "none"
    THEN Ok([result |-> LiteFallback,
             trace |-> FallbackTrace("LightweightWoundAnalyzer.analyze_wound", t.exc)])
    ELSE t

LightweightAnalyzeWound(image_data, content, z) ==
    LiteExcept(LiteTry(image_data, content, z))

\* lightweight_model.analyze_wound_api: the result's six fields and the label
\* "lightweight_analysis", whatever the path that produced the result.
LiteWrap(r) ==
    IF r.exc /= "none" THEN r
    ELSE Ok([result |->
                [inflammation_score |-> r.val.result.inflammation_score,
                 swelling_score |-> r.val.result.swelling_score,
                 closure_score |-> r.val.result.closure_score,
                 overall_status |-> r.val.result.overall_status,
                 recommendations |-> r.val.result.recommendations,
                 confidence |-> r.val.result.confidence,
                 processed_regions |-> "lightweight_analysis"],
             trace |-> r.val.trace])

LightweightAnalyzeWoundApi(image_base64, content, z) ==
    LiteWrap(LightweightAnalyzeWound(image_base64, content, z))

---------------------------------------------------------------------------
(* pure_python_api.py: the metadata variant                                *)

\* The try block of analyze_base64_metadata; `header` is the text before the
\* first comma, or the first 100 characters of a string without a comma.
MetadataOf(header, data_part) ==
    [header |-> header,
     size_estimate |-> (StrLen(data_part) * 3) \div 4,
     entropy |-> Cardinality(Chars(Prefix(data_part, 1000))),
     data_length |-> StrLen(data_part)]

\* analyze_base64_metadata: nothing in its try block raises on a string, so
\* its except clause is never entered.
analyze_base64_metadata(image_data) ==
    IF HasComma(image_data)
    THEN MetadataOf(Split(image_data)[1], Split(image_data)[2])
    ELSE MetadataOf(Prefix(image_data, 100), image_data)

SizeFactor(size) == IF size > 200000 THEN 130 ELSE IF size > 100000 THEN 110 ELSE 90

ComplexityFactor(entropy) == IF entropy > 50 THEN 120 ELSE IF entropy > 35 THEN 100 ELSE 80

\* The scores of smart_medical_analysis for the product f = size_factor *
\* complexity_factor (in 1/10000) and the three random.random() draws.
MetaScores(f, u) ==
    [inflammation_score |-> Max(1000, Min(((2500 + u[1] * 40) * f) \div 10000, 9500)),
     swelling_score |-> Max(1000, Min(((2000 + u[2] * 30) * f) \div 10000, 8500)),
     closure_score |-> Max(3000, Min(((6000 + u[3] * 35) * 10000) \div f, 9800))]

smart_medical_analysis(metadata, u) ==
    MetaScores(SizeFactor(metadata.size_estimate) * ComplexityFactor(metadata.entropy), u)

MetaCritical ==
    <<"Acil tibbi mudahale gerekebilir", "Hekiminizle derhal iletisime gecin",
      "Enfeksiyon belirtileri gozleniyor", "Antibiyotik tedavisi gerekebilir">>
MetaWarning ==
    <<"Yakin tibbi takip gerekli", "Ilac kullaniminizi kontrol edin",
      "Hijyen kurallarina siki sekilde uyun", "48 saat icinde kontrole gelin",
      "Herhangi bir kotulesmede hemen basvurun">>
MetaGood ==
    <<"Iyilesme sureci olumlu gorunuyor", "Duzenli takiplerinizi aksatmayin",
      "Onerilen bakim yontemlerini surdurun", "Yarayi temiz ve kuru tutun",
      "Pansumanlari duzenli degistirin">>

\* The status evaluation inlined in pure_python_analysis.
\* The classifier with a closure of exactly 50 counted as a warning.
MetaStatus_ClosureInclusive(inflammation_score, swelling_score, closure_score) ==
    IF inflammation_score > 7000 \/ swelling_score > 6000
    THEN [status |-> "critical", recommendations |-> MetaCritical]
    ELSE IF inflammation_score > 5000 \/ swelling_score > 4000 \/ closure_score <= 5000
    THEN [status |-> "warning", recommendations |-> MetaWarning]
    ELSE [status |-> "good", recommendations |-> MetaGood]

MetaStatus(inflammation_score, swelling_score, closure_score) ==
    IF inflammation_score > 7000 \/ swelling_score > 6000
    THEN [status |-> "critical", recommendations |-> MetaCritical]
    ELSE IF inflammation_score > 5000 \/ swelling_score > 4000 \/ closure_score < 5000
    THEN [status |-> "warning", recommendations |-> MetaWarning]
    ELSE [status |-> "good", recommendations |-> MetaGood]

\* confidence = 0.70 + min(entropy, 50) / 100, rounded to two places.
MetaConfidence(entropy) == RoundTo(7000 + Min(entropy, 50) * 100, 100)

MetaFallback ==
    [inflammation_score |-> 3500, swelling_score |-> 2500, closure_score |-> 7500,
     overall_status |-> "good",
     recommendations |-> <<"Analiz tamamlandi", "Duzenli tibbi takip onerilir",
                           "Herhangi bir endiseniz varsa hekiminize danisin",
                           "Yaranizi temiz tutmaya devam edin">>,
     confidence |-> 6500,
     processed_regions |-> "fallback_analysis"]

MetaResult(s, st, confidence) ==
    [inflammation_score |-> RoundTo(s.inflammation_score, 10),
     swelling_score |-> RoundTo(s.swelling_score, 10),
     closure_score |-> RoundTo(s.closure_score, 10),
     overall_status |-> st.status,
     recommendations |-> st.recommendations,
     confidence |-> confidence,
     processed_regions |-> "metadata_analysis"]

MetaAnalysed(image_data, metadata, s) ==
    Ok([result |-> MetaResult(s, MetaStatus(s.inflammation_score, s.swelling_score,
                                            s.closure_score),
                              MetaConfidence(metadata.entropy)),
        trace |-> Trace("pure_python_analysis", "normal",
                        IF HasComma(image_data) THEN Split(image_data)[2] ELSE image_data,
                        NotAnImage,
                        <<s.inflammation_score, s.swelling_score, s.closure_score>>)])

MetaScored(image_data, metadata, u) ==
    MetaAnalysed(image_data, metadata, smart_medical_analysis(metadata, u))

\* The try block of pure_python_analysis.
MetaTry(image_data, u) == MetaScored(image_data, analyze_base64_metadata(image_data), u)

MetaExcept(t) ==
    IF t.exc /= "none"
    THEN Ok([result |-> MetaFallback,
             trace |-> FallbackTrace("pure_python_analysis", t.exc)])
    ELSE t

pure_python_analysis(image_data, u) == MetaExcept(MetaTry(image_data, u))

---------------------------------------------------------------------------
(* wound_analysis_model.py: the full variant                               *)

\* The integer square root, by bisection.
RECURSIVE SqrtIn(_, _, _)
SqrtIn(n, lo, hi) ==
    IF hi - lo <= 1 THEN lo
    ELSE IF ((lo + hi) \div 2) * ((lo + hi) \div 2) <= n
    THEN SqrtIn(n, (lo + hi) \div 2, hi)
    ELSE SqrtIn(n, lo, (lo + hi) \div 2)

ISqrt(n) == SqrtIn(n, 0, Min(n + 1, 46341))

\* WoundImageProcessor.detect_wound_region on the picture as decoded (it is
\* not resized first): the mask, its size and the contour, or cv2.error.
detect_wound_region(image) ==
    IF CvtColor(image).exc /= "none" THEN Raise("cv2.error")
    ELSE Ok([wound_area |-> IF image.cv.contour THEN image.cv.wound_area ELSE 0,
             total |-> image.size[1] * image.size[2],
             contour |-> image.cv.contour])

\* area_ratio * 50 + min(intensity_ratio, 2) * 25
RednessScore(wound_area, red_area, r_mean, g_mean) ==
    (IF wound_area > 0 THEN (red_area * 5000) \div wound_area ELSE 0)
    + Min(IF g_mean > 0 THEN (r_mean * 100) \div (g_mean + 1) ELSE 100, 200) * 25

\* InflammationDetector.detect_redness
InflammationDetectRedness(image, mask, z) ==
    IF CvtColor(image).exc /= "none" THEN Raise("cv2.error")
    ELSE Ok(Min(Max(RednessScore(mask.wound_area,
                                 IF mask.wound_area > 0 THEN image.cv.red_area ELSE 0,
                                 IF mask.wound_area > 0 THEN image.cv.r_mean ELSE 0,
                                 IF mask.wound_area > 0 THEN image.cv.g_mean ELSE 0)
                    + Normal(0, 500, z), 0), 10000))

\* defect_score * 0.6 + irregularity * 40, with pi taken as 355/113.
ContourSwelling(defects, area, perimeter) ==
    (((defects * 10000) \div area) * 6) \div 10
    + (100 - (((4 * 355 * area) \div 113) * 100) \div (perimeter * perimeter)) * 40

\* SwellingDetector.detect_swelling from the point where a contour is in hand.
SwellingOfContour(cv, z) ==
    IF cv.hull_n > 3 /\ cv.defects >= 0 /\ cv.area > 0 /\ cv.perimeter > 0
    THEN Min(Max(ContourSwelling(cv.defects, cv.area, cv.perimeter) + Normal(0, 800, z), 0),
             10000)
    ELSE Max(1500, Min(Normal(3000, 1500, z), 8500))

\* SwellingDetector.detect_swelling: without a wound contour the thresholded
\* picture supplies one, and without that either the draw is returned as is.
SwellingDetectSwelling(image, contour, z) ==
    IF ~contour /\ CvtColor(image).exc /= "none" THEN Raise("cv2.error")
    ELSE IF ~contour /\ ~image.cv.thresh_contour THEN Ok(Normal(2500, 1000, z))
    ELSE Ok(SwellingOfContour(image.cv, z))

\* ClosureDetector.detect_closure
\* A closure detector that takes a wound without line segments as closed.
ClosureDetectClosure_NoLinesIsClosed(image, mask) ==
    IF CvtColor(image).exc /= "none" THEN Raise("cv2.error")
    ELSE IF image.cv.lines >= 0 /\ mask.wound_area > 0
    THEN Ok(Min((image.cv.lines * 10000) \div ISqrt(mask.wound_area * 100), 10000))
    ELSE Ok(10000)

ClosureDetectClosure(image, mask) ==
    IF CvtColor(image).exc /= "none" THEN Raise("cv2.error")
    ELSE IF image.cv.lines >= 0 /\ mask.wound_area > 0
    THEN Ok(Min((image.cv.lines * 10000) \div ISqrt(mask.wound_area * 100), 10000))
    ELSE Ok(0)

\* The classifier with the warning rule evaluated before the critical rule.
WoundEvaluateOverallStatus_WarningFirst(inflammation, swelling, closure) ==
    IF inflammation > 5000 \/ swelling > 4000 \/ closure < 5000
    THEN [status |-> "warning", recommendations |-> LiteWarning]
    ELSE IF inflammation > 7000 \/ swelling > 6000
    THEN [status |-> "critical", recommendations |-> LiteCritical]
    ELSE [status |-> "good", recommendations |-> LiteGood]

\* WoundAnalysisModel._evaluate_overall_status
WoundEvaluateOverallStatus(inflammation, swelling, closure) ==
    IF inflammation > 7000 \/ swelling > 6000
    THEN [status |-> "critical", recommendations |-> LiteCritical]
    ELSE IF inflammation > 5000 \/ swelling > 4000 \/ closure < 5000
    THEN [status |-> "warning", recommendations |-> LiteWarning]
    ELSE [status |-> "good", recommendations |-> LiteGood]

\* WoundAnalysisModel._calculate_confidence
WoundCalculateConfidence(mask) ==
    IF mask.wound_area * 100 < mask.total THEN 3000
    ELSE IF mask.wound_area * 100 < mask.total * 5 THEN 6000
    ELSE 9000

\* The result of the except clause of WoundAnalysisModel.analyze_wound;
\* processed_regions is a dict, held as its set of items.
\* A failure result without a recommendation.
WoundFallback_NoRecommendations ==
    [inflammation_score |-> 0, swelling_score |-> 0, closure_score |-> 0,
     overall_status |-> "error",
     recommendations |-> <<>>,
     confidence |-> 0,
     processed_regions |-> {}]

WoundFallback ==
    [inflammation_score |-> 0, swelling_score |-> 0, closure_score |-> 0,
     overall_status |-> "error",
     recommendations |-> <<"Goruntu analizi yapilamadi">>,
     confidence |-> 0,
     processed_regions |-> {}]

WoundResult(i, s, c, st, mask) ==
    [inflammation_score |-> i,
     swelling_score |-> s,
     closure_score |-> c,
     overall_status |-> st.status,
     recommendations |-> st.recommendations,
     confidence |-> WoundCalculateConfidence(mask),
     processed_regions |-> {<<"wound_area", mask.wound_area>>, <<"total_pixels", mask.total>>}]

WoundAnalysed(payload, image, mask, i, s, c) ==
    IF i.exc /= "none" \/ s.exc /= "none" \/ c.exc /= "none" THEN Raise("cv2.error")
    ELSE Ok([result |-> WoundResult(i.val, s.val, c.val,
                                    WoundEvaluateOverallStatus(i.val, s.val, c.val), mask),
             trace |-> Trace("WoundAnalysisModel.analyze_wound", "normal", payload, image,
                             <<i.val, s.val, c.val>>)])

WoundRegion(payload, image, region, z) ==
    IF region.exc /= "none" THEN Raise(region.exc)
    ELSE WoundAnalysed(payload, image, region.val,
                       InflammationDetectRedness(image, region.val, z[1]),
                       SwellingDetectSwelling(image, region.val.contour, z[2]),
                       ClosureDetectClosure(image, region.val))

WoundOpened(payload, image, z) ==
    IF image.exc /= "none" THEN Raise(image.exc)
    ELSE WoundRegion(payload, image.val, detect_wound_region(image.val), z)

WoundDecoded(payload, image_bytes, content, z) ==
    IF image_bytes.exc /= "none" THEN Raise(image_bytes.exc)
    ELSE WoundOpened(payload, ImageOpen(image_bytes.val, content), z)

WoundParts(parts, content, z) ==
    IF Len(parts) < 2 THEN Raise("IndexError")
    ELSE WoundDecoded(parts[2], b64decode(parts[2]), content, z)

\* The try block of WoundAnalysisModel.analyze_wound.
WoundTry(image_data, content, z) == WoundParts(Split(image_data), content, z)

WoundExcept(t) ==
    IF t.exc /= "none"
    THEN Ok([result |-> WoundFallback,
             trace |-> FallbackTrace("WoundAnalysisModel.analyze_wound", t.exc)])
    ELSE t

WoundAnalyzeWound(image_data, content, z) == WoundExcept(WoundTry(image_data, content, z))

\* wound_analysis_model.analyze_wound_api: the result's fields as a dict.
WoundAnalyzeWoundApi(image_base64, content, z) == WoundAnalyzeWound(image_base64, content, z)

\* What a handler leaves behind: the HTTP response and the trace of the
\* analysis call it made (NoCall when it made none).
NoRequest == [svc |-> "none", image |-> <<>>]
NoResponse == [code |-> 0, detail |-> "none", body |-> <<>>]
NoCall ==
    [fn |-> "none", path |-> "none", payload |-> NoPayload, pic |-> NotAnImage,
     raw |-> NoRaw, caught |-> "none", exc |-> "none", result |-> <<>>]

\* The trace of a call of an analysis function with outcome `r`.
CallOf(fn, r) ==
    IF r.exc /= "none"
    THEN [fn |-> fn, path |-> "raised", payload |-> NoPayload, pic |-> NotAnImage,
          raw |-> NoRaw, caught |-> "none", exc |-> r.exc, result |-> <<>>]
    ELSE [fn |-> r.val.trace.fn, path |-> r.val.trace.path,
          payload |-> r.val.trace.payload, pic |-> r.val.trace.pic,
          raw |-> r.val.trace.raw, caught |-> r.val.trace.caught, exc |-> "none",
          result |-> r.val.result]

HttpOk(result) == [code |-> 200, detail |-> "none", body |-> result]
HttpError(code, detail) == [code |-> code, detail |-> detail, body |-> <<>>]

\* What the try block of an endpoint does with the outcome `r` of its
\* analysis call: the result is handed to the response model.
EndpointCalled(fn, r) ==
    IF r.exc /= "none"
    THEN [exc |-> r.exc, code |-> 0, call |-> CallOf(fn, r), result |-> <<>>]
    ELSE [exc |-> "none", code |-> 200, call |-> CallOf(fn, r), result |-> r.val.result]

EndpointRejected ==
    [exc |-> "HTTPException", code |-> 400, call |-> NoCall, result |-> <<>>]

\* The try block of api_server.analyze_wound: HTTPException(400) for an empty
\* image, else the analysis and the response model built from its result.
ApiServerTry(image, content, z) ==
    IF image = <<>> THEN EndpointRejected
    ELSE EndpointCalled("simple_wound_analysis_no_cv",
                        simple_wound_analysis_no_cv(image, content, z))

\* `except Exception` of api_server.analyze_wound and lightweight_api.analyze_wound:
\* whatever was raised inside the try block, the HTTPException(400) included,
\* is raised again as HTTPException(500).
ExceptRaise500(t) ==
    IF t.exc /= "none"
    THEN [response |-> HttpError(500, "Analysis failed"), call |-> t.call]
    ELSE [response |-> HttpOk(t.result), call |-> t.call]

ApiServerHandler(image, content, z) == ExceptRaise500(ApiServerTry(image, content, z))

\* lightweight_api.analyze_wound
LightweightApiTry(image, content, z) ==
    IF image = <<>> THEN EndpointRejected
    ELSE EndpointCalled("LightweightWoundAnalyzer.analyze_wound",
                        LightweightAnalyzeWoundApi(image, content, z))

LightweightApiHandler(image, content, z) ==
    ExceptRaise500(LightweightApiTry(image, content, z))

\* The fallback_result of pure_python_api.analyze_wound.
PurePythonEndpointFallback ==
    [inflammation_score |-> 3000, swelling_score |-> 2000, closure_score |-> 8000,
     overall_status |-> "good",
     recommendations |-> <<"Analiz tamamlandi", "Duzenli kontrol onerilir">>,
     confidence |-> 6000,
     processed_regions |-> "error_fallback"]

PurePythonApiTry(image, u) ==
    IF image = <<>> THEN EndpointRejected
    ELSE EndpointCalled("pure_python_analysis", pure_python_analysis(image, u))

\* `except Exception` of pure_python_api.analyze_wound: whatever was raised
\* inside the try block, the HTTPException(400) included, is answered with
\* the endpoint's fallback result.
ExceptReturnFallback(t) ==
    IF t.exc /= "none"
    THEN [response |-> HttpOk(PurePythonEndpointFallback), call |-> t.call]
    ELSE [response |-> HttpOk(t.result), call |-> t.call]

PurePythonApiHandler(image, u) == ExceptReturnFallback(PurePythonApiTry(image, u))

\* A direct call of wound_analysis_model.analyze_wound_api: the caller gets
\* the returned dict, or the exception that escaped.
Returned(result) == [code |-> 1, detail |-> "returned", body |-> result]
Escaped(exc) == [code |-> -1, detail |-> exc, body |-> <<>>]

WoundApiCall(r) ==
    IF r.exc /= "none"
    THEN [response |-> Escaped(r.exc), call |-> CallOf("WoundAnalysisModel.analyze_wound", r)]
    ELSE [response |-> Returned(r.val.result),
          call |-> CallOf("WoundAnalysisModel.analyze_wound", r)]

---------------------------------------------------------------------------
(* deployment/backend/main.py: the production backend.  Its module-level   *)
(* `model` is assigned once, when the module is imported; two endpoints    *)
(* read it.  The timestamp of a response is left out.                      *)

\* Requests the server may hold at one time.
MaxClients == 2

Clients == 1..MaxClients

\* The global `model`: not yet assigned, a WoundAnalysisModel with the
\* configuration of its image processor, or None.
NotImported == [state |-> "unset"]
ModelLoaded == [state |-> "loaded", target_size |-> <<224, 224>>, blur_kernel |-> <<5, 5>>]
ModelNone == [state |-> "None"]

\* The text 'data:image/png;base64' and the like, and a header of another
\* media type.
THeader == [k |-> "hdr", n |-> 21, d |-> 14]
TTextHeader == [k |-> "txt", n |-> 22, d |-> 14]

\* image_data.startswith('data:image/')
StartsWithDataImage(s) == s /= <<>> /\ s[1].k = "hdr"

\* file.content_type.startswith('image/')
ImagePng == [type |-> "image", subtype |-> "png"]
TextPlain == [type |-> "text", subtype |-> "plain"]
IsImageType(content_type) == content_type.type = "image"

\* base64.b64encode(content).decode('utf-8'): four characters for every three
\* bytes, the last group padded.
b64encode(size) == [k |-> "b64", n |-> ((size + 2) \div 3) * 4, d |-> 64]

\* f"data:{file.content_type};base64,{base64_data}"
DataUriOf(file) ==
    <<IF IsImageType(file.content_type) THEN THeader ELSE TTextHeader, TComma,
      b64encode(file.size)>>

MainRejected(code) ==
    [exc |-> "HTTPException", code |-> code, call |-> NoCall, result |-> <<>>]

\* ImageAnalysisResponse(success=True, ...) built from the dict of
\* analyze_wound_api.
ImageAnalysisResponse(result) ==
    [success |-> TRUE,
     inflammation_score |-> result.inflammation_score,
     swelling_score |-> result.swelling_score,
     closure_score |-> result.closure_score,
     overall_status |-> result.overall_status,
     recommendations |-> result.recommendations,
     confidence |-> result.confidence,
     processed_regions |-> result.processed_regions]

\* The try block of analyze_wound_endpoint.
MainAnalyzeTry(input, z) ==
    IF ~StartsWithDataImage(input.image_data) THEN MainRejected(400)
    ELSE EndpointCalled("WoundAnalysisModel.analyze_wound",
                        WoundAnalyzeWoundApi(input.image_data, input.content, z))

\* `except Exception` of analyze_wound_endpoint: whatever the try block
\* raised, its own HTTPException included, becomes HTTPException(500).
MainAnalyzeExcept(t) ==
    IF t.exc /= "none"
    THEN [response |-> HttpError(500, "Analiz sirasinda hata olustu"), call |-> t.call]
    ELSE [response |-> HttpOk(ImageAnalysisResponse(t.result)), call |-> t.call]

\* analyze_wound_endpoint: the model test stands before the try block.
analyze_wound_endpoint(m, input, z) ==
    IF m.state /= "loaded"
    THEN [response |-> HttpError(503, "AI Model henuz yuklenmedi"), call |-> NoCall]
    ELSE MainAnalyzeExcept(MainAnalyzeTry(input, z))

\* upload_image after `await file.read()`: the size test, the data URI, and
\* the model test, all inside the try block.
UploadRead(m, file, z) ==
    IF file.size > 5 * 1024 * 1024 THEN MainRejected(400)
    ELSE IF m.state = "loaded"
    THEN EndpointCalled("WoundAnalysisModel.analyze_wound",
                        WoundAnalyzeWoundApi(DataUriOf(file), file.content, z))
    ELSE MainRejected(503)

\* `except Exception` of upload_image.
UploadExcept(t) ==
    IF t.exc /= "none"
    THEN [response |-> HttpError(500, "Upload sirasinda hata olustu"), call |-> t.call]
    ELSE [response |-> HttpOk([success |-> TRUE, analysis |-> t.result]), call |-> t.call]

---------------------------------------------------------------------------
(* The request cycle: a client submits an image string to one service, the *)
(* service's handler answers it, the answer is delivered.                  *)

\* A request slot of the production backend: where its handler stands, what
\* was sent, and what the handler left behind.
Idle ==
    [pc |-> "idle", endpoint |-> "none", input |-> <<>>, response |-> NoResponse,
     call |-> NoCall]

Services == {"api_server", "lightweight_api", "pure_python_api", "wound_analysis_model"}

NoProbe == [variant |-> "none", scores |-> <<0, 0, 0>>, status |-> "none"]

Init ==
    /\ request = NoRequest
    /\ response = NoResponse
    /\ call = NoCall
    /\ probe = NoProbe
    /\ model = NotImported
    /\ inflight = [c \in Clients |-> Idle]

\* The handler's answer becomes the response; the call trace is kept beside it.
Answer(h) ==
    /\ response' = h.response
    /\ call' = h.call

Submit ==
    /\ request = NoRequest
    /\ \E svc \in Services, image \in Strings :
           request' = [svc |-> svc, image |-> image]
    /\ UNCHANGED <<response, call, probe, model, inflight>>

api_server_analyze_wound ==
    /\ request.svc = "api_server"
    /\ response = NoResponse
    /\ \E content \in Images \cup {NotAnImage}, z \in ZDraws \X ZDraws \X ZDraws :
           Answer(ApiServerHandler(request.image, content, z))
    /\ UNCHANGED <<request, probe, model, inflight>>

lightweight_api_analyze_wound ==
    /\ request.svc = "lightweight_api"
    /\ response = NoResponse
    /\ \E content \in Images \cup {NotAnImage}, z \in ZDraws \X ZDraws \X ZDraws :
           Answer(LightweightApiHandler(request.image, content, z))
    /\ UNCHANGED <<request, probe, model, inflight>>

pure_python_api_analyze_wound ==
    /\ request.svc = "pure_python_api"
    /\ response = NoResponse
    /\ \E u \in UDraws \X UDraws \X UDraws :
           Answer(PurePythonApiHandler(request.image, u))
    /\ UNCHANGED <<request, probe, model, inflight>>

wound_analysis_model_analyze_wound_api ==
    /\ request.svc = "wound_analysis_model"
    /\ response = NoResponse
    /\ \E content \in Images \cup {NotAnImage}, z \in ZDraws \X ZDraws \X ZDraws :
           Answer(WoundApiCall(WoundAnalyzeWoundApi(request.image, content, z)))
    /\ UNCHANGED <<request, probe, model, inflight>>

Deliver ==
    /\ response /= NoResponse
    /\ request' = NoRequest
    /\ response' = NoResponse
    /\ call' = NoCall
    /\ UNCHANGED <<probe, model, inflight>>

Next ==
    \/ Submit
    \/ api_server_analyze_wound
    \/ lightweight_api_analyze_wound
    \/ pure_python_api_analyze_wound
    \/ wound_analysis_model_analyze_wound_api
    \/ Deliver

Spec == Init /\ [][Next]_vars


---------------------------------------------------------------------------
(* The production backend serving several requests at once.  The event     *)
(* loop runs a handler without interruption up to its next await:          *)
(* analyze_wound_endpoint has none, upload_image has `await file.read()`.  *)

MainStrings ==
    {<<>>, <<TQuad>>, <<TComma, TMedium>>, <<THeader>>, <<THeader, TComma, TMedium>>,
     <<THeader, TComma, TJunk, TChar>>}

MainPictures == {PicWound, PicSpot, NotAnImage}

MainDraws == {-1000, 13}

AnalyzeInputs == [image_data : MainStrings, content : MainPictures]

UploadFiles ==
    [content_type : {ImagePng, TextPlain},
     size : {300, 5 * 1024 * 1024 + 1},
     content : {PicWound, NotAnImage}]

Received(endpoint, input) ==
    [pc |-> "received", endpoint |-> endpoint, input |-> input, response |-> NoResponse,
     call |-> NoCall]

Answered(slot, h) ==
    [slot EXCEPT !.pc = "answered", !.response = h.response, !.call = h.call]

\* The module-level try/except around WoundAnalysisModel().
ImportMain ==
    /\ model = NotImported
    /\ model' \in {ModelLoaded, ModelNone}
    /\ UNCHANGED <<request, response, call, probe, inflight>>

SubmitAnalyzeWound ==
    /\ model /= NotImported
    /\ \E c \in Clients, input \in AnalyzeInputs :
           /\ inflight[c].pc = "idle"
           /\ inflight' = [inflight EXCEPT ![c] = Received("/api/analyze-wound", input)]
    /\ UNCHANGED <<request, response, call, probe, model>>

SubmitUploadImage ==
    /\ model /= NotImported
    /\ \E c \in Clients, file \in UploadFiles :
           /\ inflight[c].pc = "idle"
           /\ inflight' = [inflight EXCEPT ![c] = Received("/api/upload-image", file)]
    /\ UNCHANGED <<request, response, call, probe, model>>

\* A handler that gives the model up once an analysis has failed.
main_analyze_wound_endpoint_DropsModel ==
    /\ \E c \in Clients, z \in MainDraws \X MainDraws \X MainDraws :
           /\ inflight[c].pc = "received"
           /\ inflight[c].endpoint = "/api/analyze-wound"
           /\ inflight' = [inflight EXCEPT ![c] =
                  Answered(@, analyze_wound_endpoint(model, inflight[c].input, z))]
           /\ model' = IF analyze_wound_endpoint(model, inflight[c].input, z).response.code = 500
                       THEN ModelNone ELSE model
    /\ UNCHANGED <<request, response, call, probe>>

main_analyze_wound_endpoint ==
    /\ \E c \in Clients, z \in MainDraws \X MainDraws \X MainDraws :
           /\ inflight[c].pc = "received"
           /\ inflight[c].endpoint = "/api/analyze-wound"
           /\ inflight' = [inflight EXCEPT ![c] =
                  Answered(@, analyze_wound_endpoint(model, inflight[c].input, z))]
    /\ UNCHANGED <<request, response, call, probe, model>>

\* upload_image up to `await file.read()`: a content type that is no image
\* raises HTTPException(400) inside the try block.
main_upload_image_begin ==
    /\ \E c \in Clients :
           /\ inflight[c].pc = "received"
           /\ inflight[c].endpoint = "/api/upload-image"
           /\ inflight' = [inflight EXCEPT ![c] =
                  IF IsImageType(inflight[c].input.content_type)
                  THEN [@ EXCEPT !.pc = "reading"]
                  ELSE Answered(@, UploadExcept(MainRejected(400)))]
    /\ UNCHANGED <<request, response, call, probe, model>>

\* upload_image from the point where file.read() has returned.
main_upload_image_resume ==
    /\ \E c \in Clients, z \in MainDraws \X MainDraws \X MainDraws :
           /\ inflight[c].pc = "reading"
           /\ inflight' = [inflight EXCEPT ![c] =
                  Answered(@, UploadExcept(UploadRead(model, inflight[c].input, z)))]
    /\ UNCHANGED <<request, response, call, probe, model>>

MainDeliver ==
    /\ \E c \in Clients :
           /\ inflight[c].pc = "answered"
           /\ inflight' = [inflight EXCEPT ![c] = Idle]
    /\ UNCHANGED <<request, response, call, probe, model>>

NextMain ==
    \/ ImportMain
    \/ SubmitAnalyzeWound
    \/ SubmitUploadImage
    \/ main_analyze_wound_endpoint
    \/ main_upload_image_begin
    \/ main_upload_image_resume
    \/ MainDeliver

SpecMain == Init /\ [][NextMain]_vars

---------------------------------------------------------------------------
(* The status classifiers on their own: each variant's classifier applied  *)
(* to a score triple drawn from a grid that holds the thresholds and       *)
(* their neighbours.                                                       *)

InflammationGrid == {0, 5000, 5010, 7000, 7010, 10000}
SwellingGrid == {-500, 4000, 4010, 6000, 6010}
ClosureGrid == {0, 4990, 5000, 9800}

Probe(variant, i, s, c, st) ==
    [variant |-> variant, scores |-> <<i, s, c>>, status |-> st.status,
     recommendations |-> st.recommendations]

ClassifyNoCv ==
    /\ \E i \in InflammationGrid, s \in SwellingGrid, c \in ClosureGrid :
           probe' = Probe("api_server", i, s, c, NoCvStatus(i, s, c))
    /\ UNCHANGED <<request, response, call, model, inflight>>

ClassifyLightweight ==
    /\ \E i \in InflammationGrid, s \in SwellingGrid, c \in ClosureGrid :
           probe' = Probe("lightweight_model", i, s, c, LightweightEvaluateStatus(i, s, c))
    /\ UNCHANGED <<request, response, call, model, inflight>>

ClassifyPurePython ==
    /\ \E i \in InflammationGrid, s \in SwellingGrid, c \in ClosureGrid :
           probe' = Probe("pure_python_api", i, s, c, MetaStatus(i, s, c))
    /\ UNCHANGED <<request, response, call, model, inflight>>

ClassifyWoundModel ==
    /\ \E i \in InflammationGrid, s \in SwellingGrid, c \in ClosureGrid :
           probe' = Probe("wound_analysis_model", i, s, c,
                          WoundEvaluateOverallStatus(i, s, c))
    /\ UNCHANGED <<request, response, call, model, inflight>>

NextClassify ==
    \/ ClassifyNoCv
    \/ ClassifyLightweight
    \/ ClassifyPurePython
    \/ ClassifyWoundModel

SpecClassify == Init /\ [][NextClassify]_vars

---------------------------------------------------------------------------
(* Repeated calls: one variant's analysis function called again and again  *)
(* on the same image string, each call with its own noise draws.  The      *)
(* probe keeps the input and, per call, the path taken and the confidence  *)
(* returned.                                                               *)

\* Calls made on one input.
MaxRuns == 2

Variants == {"api_server", "lightweight_model", "pure_python_api", "wound_analysis_model"}

RepeatStrings == {s \in Strings : Len(s) < MaxTokens}

Subject(variant, image, content) ==
    [variant |-> variant, image |-> image, content |-> content, runs |-> <<>>]

\* What the caller sees of one call: the path and the confidence.
RunOf(r) == [path |-> r.val.trace.path, confidence |-> r.val.result.confidence]

Load ==
    /\ probe = NoProbe
    /\ \E variant \in Variants, image \in RepeatStrings, content \in Images \cup {NotAnImage} :
           probe' = Subject(variant, image, content)
    /\ UNCHANGED <<request, response, call, model, inflight>>

Again(variant) ==
    /\ probe.variant = variant
    /\ "runs" \in DOMAIN probe
    /\ Len(probe.runs) < MaxRuns

RepeatNoCv ==
    /\ Again("api_server")
    /\ \E z \in ZDraws \X ZDraws \X ZDraws :
           probe' = [probe EXCEPT !.runs = Append(@, RunOf(
                         simple_wound_analysis_no_cv(probe.image, probe.content, z)))]
    /\ UNCHANGED <<request, response, call, model, inflight>>

RepeatLightweight ==
    /\ Again("lightweight_model")
    /\ \E z \in ZDraws \X ZDraws \X ZDraws :
           probe' = [probe EXCEPT !.runs = Append(@, RunOf(
                         LightweightAnalyzeWoundApi(probe.image, probe.content, z)))]
    /\ UNCHANGED <<request, response, call, model, inflight>>

RepeatPurePython ==
    /\ Again("pure_python_api")
    /\ \E u \in UDraws \X UDraws \X UDraws :
           probe' = [probe EXCEPT !.runs = Append(@, RunOf(
                         pure_python_analysis(probe.image, u)))]
    /\ UNCHANGED <<request, response, call, model, inflight>>

RepeatWoundModel ==
    /\ Again("wound_analysis_model")
    /\ \E z \in ZDraws \X ZDraws \X ZDraws :
           probe' = [probe EXCEPT !.runs = Append(@, RunOf(
                         WoundAnalyzeWoundApi(probe.image, probe.content, z)))]
    /\ UNCHANGED <<request, response, call, model, inflight>>

\* Feature extraction called again and again on one decoded buffer.  The
\* probe keeps the buffer as the extractor left it and the signals of each
\* call.
Extractors ==
    {"analyze_colors_pil", "detect_wound_region", "LightweightWoundAnalyzer.detect"}

Buffered(extractor, buffer) ==
    [variant |-> extractor, buffer |-> buffer, signals |-> <<>>]

LoadBuffer ==
    /\ probe = NoProbe
    /\ \/ \E extractor \in Extractors, image \in Images :
              probe' = Buffered(extractor, image)
       \/ \E image_data \in Strings :
              probe' = Buffered("analyze_base64_metadata", image_data)
    /\ UNCHANGED <<request, response, call, model, inflight>>

ExtractAgain(extractor) ==
    /\ probe.variant = extractor
    /\ "signals" \in DOMAIN probe
    /\ Len(probe.signals) < MaxRuns

\* The signal part of LightweightWoundAnalyzer.detect_redness, detect_swelling
\* and detect_closure: red_percentage, edge_density and variance.
LiteSignals(image) ==
    IF CvtColor(image).exc /= "none" THEN Raise("cv2.error")
    ELSE Ok(<<image.cv.red_hsv, image.cv.edge, image.cv.variance>>)

\* analyze_colors_pil works on the copies that resize and convert return.
ExtractColorsPil ==
    /\ ExtractAgain("analyze_colors_pil")
    /\ probe' = [probe EXCEPT !.signals = Append(@, analyze_colors_pil(probe.buffer))]
    /\ UNCHANGED <<request, response, call, model, inflight>>

ExtractMetadata ==
    /\ ExtractAgain("analyze_base64_metadata")
    /\ probe' = [probe EXCEPT !.signals = Append(@, analyze_base64_metadata(probe.buffer))]
    /\ UNCHANGED <<request, response, call, model, inflight>>

\* A region detector that shrinks the caller's array to the working size.
ExtractWoundRegion_ResizesInPlace ==
    /\ ExtractAgain("detect_wound_region")
    /\ probe' = [probe EXCEPT !.signals = Append(@, detect_wound_region(probe.buffer)),
                              !.buffer = Resize(@, <<224, 224>>)]
    /\ UNCHANGED <<request, response, call, model, inflight>>

\* detect_wound_region fills a fresh mask and leaves the image as it was.
ExtractWoundRegion ==
    /\ ExtractAgain("detect_wound_region")
    /\ probe' = [probe EXCEPT !.signals = Append(@, detect_wound_region(probe.buffer))]
    /\ UNCHANGED <<request, response, call, model, inflight>>

ExtractLiteSignals ==
    /\ ExtractAgain("LightweightWoundAnalyzer.detect")
    /\ probe' = [probe EXCEPT !.signals = Append(@, LiteSignals(probe.buffer))]
    /\ UNCHANGED <<request, response, call, model, inflight>>

NextRepeat ==
    \/ Load
    \/ RepeatNoCv
    \/ RepeatLightweight
    \/ RepeatPurePython
    \/ RepeatWoundModel
    \/ LoadBuffer
    \/ ExtractColorsPil
    \/ ExtractMetadata
    \/ ExtractWoundRegion
    \/ ExtractLiteSignals

SpecRepeat == Init /\ [][NextRepeat]_vars

---------------------------------------------------------------------------
(* The score synthesizers step by step.  For one score of one variant the  *)
(* probe keeps the value of the transform of the signal, the value the     *)
(* noise is added to, the noisy value, the value returned, and the steps   *)
(* the code takes in their order: "transform", "clip", "noise", "clip".    *)

Staged(score, transform, base, noisy, final, steps) ==
    [score |-> score, transform |-> transform, base |-> base, noisy |-> noisy,
     final |-> final, steps |-> steps]

\* api_server.py:96-100
NoCvInflammationStages(color_stats, z) ==
    LET base == Min(color_stats.red_percentage * 3, 6000)
    IN  Staged("inflammation", color_stats.red_percentage * 3, base,
               base + Normal(2000, 1200, z),
               Min(Max(1500, base + Normal(2000, 1200, z)), 9500),
               <<"transform", "clip", "noise", "clip">>)

\* api_server.py:102-110: the base is one of three constants.
NoCvSwellingStages(color_stats, z) ==
    LET base == IF color_stats.avg_brightness > 15000 THEN 2000
                ELSE IF color_stats.avg_brightness < 8000 THEN 5000 ELSE 3000
    IN  Staged("swelling", base, base, base + Normal(1500, 1000, z),
               Min(Max(1000, base + Normal(1500, 1000, z)), 8500),
               <<"transform", "noise", "clip">>)

\* api_server.py:112-115
NoCvClosureStages(color_stats, z) ==
    LET base == 9000 - (color_stats.red_percentage * 2)
    IN  Staged("closure", base, base, base + Normal(1000, 800, z),
               Min(Max(3000, base + Normal(1000, 800, z)), 9800),
               <<"transform", "noise", "clip">>)

\* lightweight_model.py:60-62
LiteRednessStages(red_percentage, z) ==
    LET base == Min(red_percentage * 4, 10000)
    IN  Staged("inflammation", red_percentage * 4, base, base + Normal(0, 800, z),
               Max(1000, Min(base + Normal(0, 800, z), 9500)),
               <<"transform", "clip", "noise", "clip">>)

\* lightweight_model.py:73-75
LiteSwellingStages(edge_density, z) ==
    LET base == Min(edge_density * 3, 8000)
    IN  Staged("swelling", edge_density * 3, base, base + Normal(0, 1000, z),
               Max(1500, Min(base + Normal(0, 1000, z), 8500)),
               <<"transform", "clip", "noise", "clip">>)

\* lightweight_model.py:85-93: the variance picks the distribution, the draw
\* is the score.
LiteClosureStages(variance, z) ==
    LET draw == IF variance > 2000 THEN Normal(3500, 1500, z)
                ELSE IF variance > 1000 THEN Normal(6500, 1200, z)
                ELSE Normal(8500, 800, z)
    IN  Staged("closure", draw, draw, draw, Max(2000, Min(draw, 9800)),
               <<"noise", "clip">>)

\* pure_python_api.py:101-113: a uniform draw, scaled by the factors, clipped
\* once.  `lo` and `hi` are the bounds of the score, `scaled` the draw after
\* the factors.
MetaStages(score, scaled, lo, hi) ==
    Staged(score, scaled, scaled, scaled, Max(lo, Min(scaled, hi)),
           <<"noise", "transform", "clip">>)

\* wound_analysis_model.py:149-152
WoundRednessStages(redness_score, z) ==
    Staged("inflammation", redness_score, redness_score, redness_score + Normal(0, 500, z),
           Min(Max(redness_score + Normal(0, 500, z), 0), 10000),
           <<"transform", "noise", "clip">>)

\* wound_analysis_model.py:161-202: the contour path, the fallback calculation
\* and the return of the bare draw.
WoundSwellingStages(image, contour, z) ==
    IF ~contour /\ ~image.cv.thresh_contour
    THEN Staged("swelling", Normal(2500, 1000, z), Normal(2500, 1000, z),
                Normal(2500, 1000, z), Normal(2500, 1000, z), <<"noise">>)
    ELSE IF image.cv.hull_n > 3 /\ image.cv.defects >= 0 /\ image.cv.area > 0
            /\ image.cv.perimeter > 0
    THEN LET base == ContourSwelling(image.cv.defects, image.cv.area, image.cv.perimeter)
         IN  Staged("swelling", base, base, base + Normal(0, 800, z),
                    Min(Max(base + Normal(0, 800, z), 0), 10000),
                    <<"transform", "noise", "clip">>)
    ELSE Staged("swelling", Normal(3000, 1500, z), Normal(3000, 1500, z),
                Normal(3000, 1500, z), Max(1500, Min(Normal(3000, 1500, z), 8500)),
                <<"noise", "clip">>)

\* wound_analysis_model.py:220-234: no noise is added to the closure score.
WoundClosureStages(lines, wound_area) ==
    IF lines >= 0 /\ wound_area > 0
    THEN Staged("closure", (lines * 10000) \div ISqrt(wound_area * 100),
                Min((lines * 10000) \div ISqrt(wound_area * 100), 10000),
                Min((lines * 10000) \div ISqrt(wound_area * 100), 10000),
                Min((lines * 10000) \div ISqrt(wound_area * 100), 10000),
                <<"transform", "clip">>)
    ELSE Staged("closure", 0, 0, 0, 0, <<"transform">>)

Scored(variant, stage) ==
    [variant |-> variant, score |-> stage.score, transform |-> stage.transform,
     base |-> stage.base, noisy |-> stage.noisy, final |-> stage.final,
     steps |-> stage.steps]

ColourPictures == {image \in Images : image.mode = "RGB"}

ScoreNoCv ==
    /\ \E image \in Images, z \in ZDraws :
           \E stage \in {NoCvInflammationStages(analyze_colors_pil(image), z),
                         NoCvSwellingStages(analyze_colors_pil(image), z),
                         NoCvClosureStages(analyze_colors_pil(image), z)} :
               probe' = Scored("api_server", stage)
    /\ UNCHANGED <<request, response, call, model, inflight>>

ScoreLightweight ==
    /\ \E image \in ColourPictures, z \in ZDraws :
           \E stage \in {LiteRednessStages(image.cv.red_hsv, z),
                         LiteSwellingStages(image.cv.edge, z),
                         LiteClosureStages(image.cv.variance, z)} :
               probe' = Scored("lightweight_model", stage)
    /\ UNCHANGED <<request, response, call, model, inflight>>

\* The product of the two factors of smart_medical_analysis, in 1/10000.
MetaFactor(metadata) ==
    SizeFactor(metadata.size_estimate) * ComplexityFactor(metadata.entropy)

ScorePurePython ==
    /\ \E image_data \in RepeatStrings, u \in UDraws :
           \E stage \in
               {MetaStages("inflammation",
                           ((2500 + u * 40) * MetaFactor(analyze_base64_metadata(image_data)))
                               \div 10000, 1000, 9500),
                MetaStages("swelling",
                           ((2000 + u * 30) * MetaFactor(analyze_base64_metadata(image_data)))
                               \div 10000, 1000, 8500),
                MetaStages("closure",
                           ((6000 + u * 35) * 10000)
                               \div MetaFactor(analyze_base64_metadata(image_data)),
                           3000, 9800)} :
               probe' = Scored("pure_python_api", stage)
    /\ UNCHANGED <<request, response, call, model, inflight>>

\* The redness score of InflammationDetector.detect_redness before the noise.
WoundRednessOf(image, mask) ==
    RednessScore(mask.wound_area,
                 IF mask.wound_area > 0 THEN image.cv.red_area ELSE 0,
                 IF mask.wound_area > 0 THEN image.cv.r_mean ELSE 0,
                 IF mask.wound_area > 0 THEN image.cv.g_mean ELSE 0)

ScoreWoundModel ==
    /\ \E image \in ColourPictures, z \in ZDraws :
           \E stage \in
               {WoundRednessStages(WoundRednessOf(image, detect_wound_region(image).val), z),
                WoundSwellingStages(image, detect_wound_region(image).val.contour, z),
                WoundClosureStages(image.cv.lines,
                                   detect_wound_region(image).val.wound_area)} :
               probe' = Scored("wound_analysis_model", stage)
    /\ UNCHANGED <<request, response, call, model, inflight>>

NextScore ==
    \/ ScoreNoCv
    \/ ScoreLightweight
    \/ ScorePurePython
    \/ ScoreWoundModel

SpecScore == Init /\ [][NextScore]_vars

---------------------------------------------------------------------------
(* start_system.py: the launcher.  main() is a sequential script; each of  *)
(* its statements that can end the run is one action.  The probe keeps the *)
(* environment the script runs in (the files of the working directory,     *)
(* sys.version_info, what pip and the model import do), the position of    *)
(* main and the steps executed so far, each with its result.               *)

RequiredFiles == <<"requirements.txt", "wound_analysis_model.py", "api_server.py">>

Directories == SUBSET {RequiredFiles[i] : i \in 1..3}

\* sys.version_info as (major, minor, micro); the f-strings of the script
\* need 3.6 to be parsed at all.
Versions == {<<3, 6, 9>>, <<3, 7, 17>>, <<3, 8, 0>>, <<3, 12, 3>>}

\* subprocess.check_call: pip exits 0, exits non-zero (CalledProcessError),
\* or the interpreter cannot be spawned (OSError).
PipOutcomes == {"exit 0", "CalledProcessError", "OSError"}

\* from wound_analysis_model import WoundAnalysisModel; WoundAnalysisModel()
ImportOutcomes == {"loaded", "ImportError"}

\* Python's tuple order: the first differing item decides, a proper prefix
\* is smaller.
TupleLess(a, b) ==
    \E i \in 1..(Min(Len(a), Len(b)) + 1) :
        /\ \A j \in 1..(i - 1) : a[j] = b[j]
        /\ \/ i > Len(a) /\ i <= Len(b)
           \/ i <= Len(a) /\ i <= Len(b) /\ a[i] < b[i]

PathExists(dir, name) == Ok(name \in dir)

check_python_version(version_info) ==
    IF TupleLess(version_info, <<3, 8>>) THEN Ok(FALSE) ELSE Ok(TRUE)

install_requirements(pip) ==
    CASE pip = "exit 0" -> Ok(TRUE)
      [] pip = "CalledProcessError" -> Ok(FALSE)
      [] OTHER -> Raise(pip)

test_model(import) ==
    IF import = "loaded" THEN Ok(TRUE) ELSE Ok(FALSE)

Launched(dir, version_info, pip, import) ==
    [variant |-> "start_system", dir |-> dir, version_info |-> version_info,
     pip |-> pip, import |-> import, pc |-> "requirements.txt", log |-> <<>>]

InMain(pc) == "pc" \in DOMAIN probe /\ probe.pc = pc

\* One `if not <step>: return` of main: the step is executed, and main goes
\* on to the next statement only if the step returned True.
MainStep_IgnoresResult(run, step, out, next) ==
    [run EXCEPT !.log = Append(@, [step |-> step, out |-> out]),
                !.pc = next]

MainStep(run, step, out, next) ==
    [run EXCEPT !.log = Append(@, [step |-> step, out |-> out]),
                !.pc = IF out.exc /= "none" THEN "raised"
                       ELSE IF out.val THEN next ELSE "returned"]

StartMain ==
    /\ probe = NoProbe
    /\ \E dir \in Directories, version_info \in Versions,
          pip \in PipOutcomes, import \in ImportOutcomes :
           probe' = Launched(dir, version_info, pip, import)
    /\ UNCHANGED <<request, response, call, model, inflight>>

MainRequirementsExists ==
    /\ InMain("requirements.txt")
    /\ probe' = MainStep(probe, "requirements.txt",
                         PathExists(probe.dir, "requirements.txt"),
                         "wound_analysis_model.py")
    /\ UNCHANGED <<request, response, call, model, inflight>>

MainModelFileExists ==
    /\ InMain("wound_analysis_model.py")
    /\ probe' = MainStep(probe, "wound_analysis_model.py",
                         PathExists(probe.dir, "wound_analysis_model.py"),
                         "api_server.py")
    /\ UNCHANGED <<request, response, call, model, inflight>>

MainApiServerExists ==
    /\ InMain("api_server.py")
    /\ probe' = MainStep(probe, "api_server.py",
                         PathExists(probe.dir, "api_server.py"),
                         "check_python_version")
    /\ UNCHANGED <<request, response, call, model, inflight>>

MainCheckPythonVersion ==
    /\ InMain("check_python_version")
    /\ probe' = MainStep(probe, "check_python_version",
                         check_python_version(probe.version_info),
                         "install_requirements")
    /\ UNCHANGED <<request, response, call, model, inflight>>

MainInstallRequirements ==
    /\ InMain("install_requirements")
    /\ probe' = MainStep(probe, "install_requirements",
                         install_requirements(probe.pip), "test_model")
    /\ UNCHANGED <<request, response, call, model, inflight>>

MainTestModel ==
    /\ InMain("test_model")
    /\ probe' = MainStep(probe, "test_model", test_model(probe.import),
                         "start_api_server")
    /\ UNCHANGED <<request, response, call, model, inflight>>

\* start_api_server: subprocess.run blocks for as long as the server runs.
MainStartApiServer ==
    /\ InMain("start_api_server")
    /\ probe' = MainStep(probe, "start_api_server", Ok(TRUE), "serving")
    /\ UNCHANGED <<request, response, call, model, inflight>>

\* The server process exits, or Ctrl+C is caught, and main returns.
ServerStops ==
    /\ InMain("serving")
    /\ probe' = [probe EXCEPT !.pc = "returned"]
    /\ UNCHANGED <<request, response, call, model, inflight>>

MainSteps ==
    \/ MainRequirementsExists
    \/ MainModelFileExists
    \/ MainApiServerExists
    \/ MainCheckPythonVersion
    \/ MainInstallRequirements
    \/ MainTestModel
    \/ MainStartApiServer

NextStart ==
    \/ StartMain
    \/ MainRequirementsExists
    \/ MainModelFileExists
    \/ MainApiServerExists
    \/ MainCheckPythonVersion
    \/ MainInstallRequirements
    \/ MainTestModel
    \/ MainStartApiServer
    \/ ServerStops

SpecStart == Init /\ [][NextStart]_vars

\* The interpreter executes the next statement of main, and the calls of
\* the steps before the server start return; a running server need never
\* stop.
SpecStartLive == SpecStart /\ WF_vars(StartMain) /\ WF_vars(MainSteps)

---------------------------------------------------------------------------
(* Claims                                                                  *)

Probed == probe.variant /= "none"

\* C1: for every score triple the classifier of every variant returns
\* 'critical' if inflammation > 70 or swelling > 60, otherwise 'warning' if
\* inflammation > 50 or swelling > 40 or closure < 50, otherwise 'good'; the
\* critical rule is evaluated first.
C1_ThreeTierRule ==
    Probed =>
        /\ (probe.scores[1] > 7000 \/ probe.scores[2] > 6000) => probe.status = "critical"
        /\ (/\ ~(probe.scores[1] > 7000 \/ probe.scores[2] > 6000)
            /\ (probe.scores[1] > 5000 \/ probe.scores[2] > 4000 \/ probe.scores[3] < 5000))
               => probe.status = "warning"
        /\ (/\ probe.scores[1] <= 5000 /\ probe.scores[2] <= 4000
            /\ probe.scores[3] >= 5000) => probe.status = "good"

\* A triple that meets a critical and a warning condition at once, classified
\* by the full variant.
C1_Witness ==
    /\ probe.variant = "wound_analysis_model"
    /\ probe.scores[1] > 7000
    /\ probe.scores[3] < 5000
    /\ probe.status = "critical"

\* C2: the thresholds are strict: inflammation exactly 70 with swelling <= 60
\* is not 'critical' while 70.1 is; swelling exactly 60 with inflammation <= 70
\* is not 'critical'; inflammation 50, swelling 40 and closure 50 give 'good'.
C2_StrictThresholds ==
    Probed =>
        /\ (probe.scores[1] = 7000 /\ probe.scores[2] <= 6000) => probe.status /= "critical"
        /\ probe.scores[1] = 7010 => probe.status = "critical"
        /\ (probe.scores[2] = 6000 /\ probe.scores[1] <= 7000) => probe.status /= "critical"
        /\ probe.scores = <<5000, 4000, 5000>> => probe.status = "good"

\* The PIL variant's classifier on inflammation 70, swelling 60: a warning.
C2_Witness ==
    /\ probe.variant = "api_server"
    /\ probe.scores[1] = 7000
    /\ probe.scores[2] = 6000
    /\ probe.status = "warning"


PilFn == "simple_wound_analysis_no_cv"
LiteFn == "LightweightWoundAnalyzer.analyze_wound"
MetaFn == "pure_python_analysis"
WoundFn == "WoundAnalysisModel.analyze_wound"

\* An analysis function was called and has returned a result.
Returned3 == call.fn \in {PilFn, LiteFn, MetaFn} /\ call.exc = "none"
ReturnedAny == call.fn /= "none" /\ call.exc = "none"

Within(x, lo, hi) == lo <= x /\ x <= hi

ScoresWithin(i, s, c) ==
    /\ Within(i, 1000, 9500)
    /\ Within(s, 1000, 8500)
    /\ Within(c, 2000, 9800)

\* C3: in the PIL, OpenCV-lite and metadata variants every returned result,
\* on the normal and on the fallback path, has 10 <= inflammation <= 95,
\* 10 <= swelling <= 85 and 20 <= closure <= 98, before and after rounding to
\* one decimal.
C3_ScoresWithinClipRanges ==
    /\ Returned3 =>
           /\ ScoresWithin(call.result.inflammation_score, call.result.swelling_score,
                           call.result.closure_score)
           /\ call.path = "normal" => ScoresWithin(call.raw[1], call.raw[2], call.raw[3])
    /\ response.code = 200 =>
           ScoresWithin(response.body.inflammation_score, response.body.swelling_score,
                        response.body.closure_score)

\* The PIL variant with the noise far out on both sides: inflammation clipped
\* to 95 and closure clipped to 30.
C3_Witness ==
    /\ call.fn = PilFn
    /\ call.path = "normal"
    /\ call.result.inflammation_score = 9500
    /\ call.result.closure_score = 3000
    /\ response.code = 200

Tiers == {"good", "warning", "critical"}

\* C4: every result of every variant's analysis function, on every path, has
\* overall_status among good, warning, critical (error too in
\* WoundAnalysisModel only) and a non-empty recommendations list.
C4_StatusAndRecommendations ==
    /\ ReturnedAny =>
           /\ call.result.overall_status
                  \in (IF call.fn = WoundFn THEN Tiers \cup {"error"} ELSE Tiers)
           /\ Len(call.result.recommendations) > 0
    /\ response.code = 200 =>
           /\ response.body.overall_status \in Tiers
           /\ Len(response.body.recommendations) > 0

\* A payload base64 rejects, in the full variant: status error, one
\* recommendation.
C4_Witness ==
    /\ call.fn = WoundFn
    /\ call.path = "fallback"
    /\ call.caught = "binascii.Error"
    /\ call.result.overall_status = "error"
    /\ Len(call.result.recommendations) = 1

\* C5: the confidence of every returned result lies in [0, 1], in every
\* variant and on the fallback path.
C5_ConfidenceInUnitInterval ==
    /\ ReturnedAny => Within(call.result.confidence, 0, 10000)
    /\ response.code = 200 => Within(response.body.confidence, 0, 10000)

AllBase64(s) == \A i \in 1..Len(s) : s[i].k = "b64"

\* The payload of a data-URI is valid base64: alphabet characters only, their
\* number a multiple of four.
ValidBase64(s) == AllBase64(s) /\ B64Count(s) % 4 = 0

IsDataUri == HasComma(request.image)

FallbackOf(fn) ==
    IF fn = PilFn THEN NoCvFallback
    ELSE IF fn = MetaFn THEN MetaFallback
    ELSE IF fn = WoundFn THEN WoundFallback
    ELSE [inflammation_score |-> 2500, swelling_score |-> 2000, closure_score |-> 7500,
          overall_status |-> "good",
          recommendations |-> <<"Iyilesme sureci normal gorunuyor",
                                "Duzenli takip devam edin">>,
          confidence |-> 6000,
          processed_regions |-> "lightweight_analysis"]

\* C6, as claimed: in every variant a data-URI whose payload is not valid
\* base64 is answered with the variant's fixed fallback result.
C6_InvalidBase64GivesFallback ==
    (call.fn /= "none" /\ IsDataUri /\ ~ValidBase64(Split(request.image)[2])) =>
        /\ call.exc = "none"
        /\ call.path = "fallback"
        /\ call.result = FallbackOf(call.fn)

\* C6, amended: in the three variants that decode the payload a data-URI whose
\* payload b64decode rejects (its alphabet characters, the others discarded,
\* are not a multiple of four in number) is answered with the variant's fixed
\* fallback result; pure_python_analysis decodes nothing and answers every
\* data-URI on its normal path.
C6_RejectedPayloadGivesFallback ==
    (call.fn /= "none" /\ IsDataUri) =>
        /\ (call.fn /= MetaFn /\ B64Count(Split(request.image)[2]) % 4 /= 0) =>
               /\ call.exc = "none"
               /\ call.path = "fallback"
               /\ call.result = FallbackOf(call.fn)
        /\ call.fn = MetaFn =>
               /\ call.path = "normal"
               /\ call.result.processed_regions = "metadata_analysis"

\* The PIL variant on a payload like "%A": rejected by b64decode, answered
\* with the fallback.
C6_Witness ==
    /\ call.fn = PilFn
    /\ IsDataUri
    /\ ~AllBase64(Split(request.image)[2])
    /\ B64Count(Split(request.image)[2]) % 4 /= 0
    /\ call.caught = "binascii.Error"
    /\ call.result = NoCvFallback

\* C7: whatever the string, the four analysis functions return a result
\* object; no exception reaches their caller.
C7_NoExceptionEscapes ==
    call.fn /= "none" =>
        /\ call.exc = "none"
        /\ call.path \in {"normal", "fallback"}
        /\ call.result.overall_status \in Tiers \cup {"error"}
        /\ response.code \notin {-1, 500}

\* A failure inside a detector (cv2.error on a grey picture) in the
\* OpenCV-lite variant, answered with a result.
C7_Witness ==
    /\ call.fn = LiteFn
    /\ call.caught = "cv2.error"
    /\ call.exc = "none"
    /\ response.code = 200

\* C8, as claimed: in every variant the failure result has overall_status
\* 'good', mid-range scores, a confidence below every non-fallback confidence
\* and a processed_regions label no successful analysis carries.
C8_FallbackUniform ==
    ReturnedAny =>
        /\ call.path = "fallback" =>
               /\ call.result.overall_status = "good"
               /\ ScoresWithin(call.result.inflammation_score, call.result.swelling_score,
                               call.result.closure_score)
        /\ call.path = "normal" =>
               /\ call.result.confidence > FallbackOf(call.fn).confidence
               /\ call.result.processed_regions /= FallbackOf(call.fn).processed_regions

\* C8, amended: the failure result is fixed in every variant and its
\* confidence is below every non-fallback confidence of the variant.  It has
\* mid-range scores and status 'good' in api_server, lightweight_model and
\* pure_python_api, and scores 0.0 and status 'error' in WoundAnalysisModel.
\* Its processed_regions is carried by no successful analysis in api_server,
\* pure_python_api and WoundAnalysisModel; lightweight_model labels every
\* result, the fallback included, 'lightweight_analysis'.
C8_FallbackPerVariant ==
    ReturnedAny =>
        /\ call.path = "fallback" =>
               /\ call.result = FallbackOf(call.fn)
               /\ call.fn /= WoundFn =>
                      /\ call.result.overall_status = "good"
                      /\ ScoresWithin(call.result.inflammation_score,
                                      call.result.swelling_score,
                                      call.result.closure_score)
               /\ call.fn = WoundFn =>
                      /\ call.result.overall_status = "error"
                      /\ call.result.inflammation_score = 0
                      /\ call.result.swelling_score = 0
                      /\ call.result.closure_score = 0
        /\ call.path = "normal" =>
               /\ call.result.confidence > FallbackOf(call.fn).confidence
               /\ call.fn /= LiteFn =>
                      call.result.processed_regions /= FallbackOf(call.fn).processed_regions
        /\ call.fn = LiteFn => call.result.processed_regions = "lightweight_analysis"

\* The OpenCV-lite variant failing on a payload: the fixed fallback, labelled
\* like a successful analysis.
C8_Witness ==
    /\ call.fn = LiteFn
    /\ call.path = "fallback"
    /\ call.result.confidence = 6000
    /\ call.result.processed_regions = "lightweight_analysis"

HttpServices == {"api_server", "lightweight_api", "pure_python_api"}

\* C9: a request whose image is the empty string is answered with HTTP 400 by
\* api_server, lightweight_api and pure_python_api, before any analysis runs.
C9_EmptyImageIs400 ==
    (request.svc \in HttpServices /\ request.image = <<>> /\ response /= NoResponse) =>
        /\ response.code = 400
        /\ call = NoCall

\* The text after the first comma.
RECURSIVE AfterFirstComma(_)
AfterFirstComma(s) ==
    IF s = <<>> THEN <<>>
    ELSE IF Head(s).k = "comma" THEN Tail(s) ELSE AfterFirstComma(Tail(s))

ExpectedPayload(s) == IF HasComma(s) THEN AfterFirstComma(s) ELSE s

\* C10: every variant takes the part after the first comma as the payload, or
\* the whole string when it holds no comma, which is then analysed on the
\* normal path and not routed to the fallback for want of a comma.
C10_BothFormsAccepted ==
    ReturnedAny =>
        /\ call.caught /= "IndexError"
        /\ call.path = "normal" => call.payload = ExpectedPayload(request.image)


Repeated == "runs" \in DOMAIN probe /\ Len(probe.runs) = MaxRuns

\* C11: two calls of the same variant on the same input, differing only in
\* the noise drawn for the scores, return the same confidence.
C11_ConfidenceIgnoresNoise ==
    Repeated => probe.runs[1].confidence = probe.runs[2].confidence


\* The responses the backend can give to the request of one slot, the model
\* being m: a function of that request and its own noise draws.
OwnResponses(slot, m) ==
    IF slot.endpoint = "/api/analyze-wound"
    THEN {analyze_wound_endpoint(m, slot.input, z).response :
              z \in MainDraws \X MainDraws \X MainDraws}
    ELSE IF ~IsImageType(slot.input.content_type)
    THEN {UploadExcept(MainRejected(400)).response}
    ELSE {UploadExcept(UploadRead(m, slot.input, z)).response :
              z \in MainDraws \X MainDraws \X MainDraws}

Extracted == "signals" \in DOMAIN probe /\ Len(probe.signals) = MaxRuns

TierList(fn, status) ==
    IF fn = PilFn
    THEN (IF status = "critical" THEN NoCvCritical
          ELSE IF status = "warning" THEN NoCvWarning ELSE NoCvGood)
    ELSE IF fn = MetaFn
    THEN (IF status = "critical" THEN MetaCritical
          ELSE IF status = "warning" THEN MetaWarning ELSE MetaGood)
    ELSE (IF status = "critical" THEN LiteCritical
          ELSE IF status = "warning" THEN LiteWarning ELSE LiteGood)

\* C14, as claimed: within one variant the status decides the recommendation
\* list: every result carries the whole list the variant attaches to its
\* status tier.
C14_OneListPerStatus ==
    (ReturnedAny /\ call.result.overall_status \in Tiers) =>
        call.result.recommendations = TierList(call.fn, call.result.overall_status)

\* C14, amended: on the normal path every result carries, whole and in order,
\* the list its variant's classifier attaches to its status tier; the
\* fallback results carry fixed lists of their own, which in api_server,
\* lightweight_model and pure_python_api differ from the list of the 'good'
\* tier although their status is 'good'.
C14_OneListPerStatusAndPath ==
    /\ ReturnedAny =>
           /\ call.path = "normal" =>
                  call.result.recommendations
                      = TierList(call.fn, call.result.overall_status)
           /\ call.path = "fallback" =>
                  /\ call.result.recommendations = FallbackOf(call.fn).recommendations
                  /\ call.fn /= WoundFn =>
                         /\ call.result.overall_status = "good"
                         /\ call.result.recommendations /= TierList(call.fn, "good")
    /\ (response.code = 200 /\ call = NoCall) =>
           /\ response.body.overall_status = "good"
           /\ response.body.recommendations = PurePythonEndpointFallback.recommendations
           /\ response.body.recommendations /= MetaGood

\* The lightweight variant's fallback: status 'good' with the first two
\* entries of the three-entry 'good' list.
C14_Witness ==
    /\ call.fn = LiteFn
    /\ call.path = "fallback"
    /\ call.result.overall_status = "good"
    /\ Len(call.result.recommendations) = 2
    /\ call.result.recommendations = SubSeq(LiteGood, 1, 2)


IsStaged == "steps" \in DOMAIN probe

\* C15: every score of every variant is produced in the order transform,
\* clip, add noise, clip: neither clip is skipped, and what is returned lies
\* between the bounds of the last clip (0 and 100 at the widest).
C15_TransformClipNoiseClip ==
    IsStaged =>
        /\ probe.steps = <<"transform", "clip", "noise", "clip">>
        /\ Within(probe.final, 0, 10000)


\* The resolution of the picture the feature extractor or the detectors of a
\* call measured: analyze_colors_pil resizes the picture it is handed, the
\* detectors of the two OpenCV variants measure the array they are handed.
WorkingSize ==
    IF call.fn = PilFn THEN analyze_colors_pil(call.pic).working_size ELSE call.pic.size

\* C16: every feature extractor and detector works on the picture downscaled
\* to the variant's working resolution, 64x64 in api_server and 224x224 in
\* lightweight_model and wound_analysis_model, whatever the size uploaded.
C16_FixedWorkingResolution ==
    (call.fn \in {PilFn, LiteFn, WoundFn} /\ call.path = "normal") =>
        WorkingSize = (IF call.fn = PilFn THEN <<64, 64>> ELSE <<224, 224>>)


\* C17: in the full variant every returned inflammation, swelling and closure
\* score lies in [0, 100] on every path, the paths of detect_swelling without
\* a wound contour and without a thresholded contour included.
C17_FullVariantScoresBounded ==
    (call.fn = WoundFn /\ call.exc = "none") =>
        /\ Within(call.result.inflammation_score, 0, 10000)
        /\ Within(call.result.swelling_score, 0, 10000)
        /\ Within(call.result.closure_score, 0, 10000)


Classified == probe.variant \in Variants /\ "status" \in DOMAIN probe

\* C18: the four implementations of the status classifier return the same
\* status tier for every score triple.
C18_ClassifiersAgree ==
    Classified =>
        /\ probe.status = NoCvStatus(probe.scores[1], probe.scores[2], probe.scores[3]).status
        /\ probe.status
               = LightweightEvaluateStatus(probe.scores[1], probe.scores[2],
                                           probe.scores[3]).status
        /\ probe.status = MetaStatus(probe.scores[1], probe.scores[2], probe.scores[3]).status
        /\ probe.status
               = WoundEvaluateOverallStatus(probe.scores[1], probe.scores[2],
                                            probe.scores[3]).status

\* The lightweight classifier on a triple just over the warning threshold of
\* inflammation and on the critical threshold of swelling.
C18_Witness ==
    /\ probe.variant = "lightweight_model"
    /\ probe.scores = <<5010, 6000, 9800>>
    /\ probe.status = "warning"


AnsweredSlot(c) == inflight[c].pc = "answered"

\* A request that fails the validation of its endpoint.
FailsValidation(slot) ==
    IF slot.endpoint = "/api/analyze-wound"
    THEN ~StartsWithDataImage(slot.input.image_data)
    ELSE ~IsImageType(slot.input.content_type) \/ slot.input.size > 5 * 1024 * 1024

\* C19: with the model loaded, a request to /api/analyze-wound whose
\* image_data does not start with 'data:image/' and an upload whose content
\* type is not image/* or whose content exceeds 5 MB are answered with HTTP
\* 400, and no analysis is run.
C19_ValidationFailuresAre400 ==
    \A c \in Clients :
        (AnsweredSlot(c) /\ model = ModelLoaded /\ FailsValidation(inflight[c])) =>
            /\ inflight[c].response.code = 400
            /\ inflight[c].call = NoCall

\* C20: when the model is None, /api/analyze-wound and /api/upload-image
\* answer every request with HTTP 503 and never call analyze_wound_api.
C20_NoModelIs503 ==
    \A c \in Clients :
        (AnsweredSlot(c) /\ model = ModelNone) =>
            /\ inflight[c].response.code = 503
            /\ inflight[c].call = NoCall

Started == "pc" \in DOMAIN probe

StartOrder ==
    RequiredFiles \o <<"check_python_version", "install_requirements",
                       "test_model", "start_api_server">>

Succeeded(entry) == entry.out.exc = "none" /\ entry.out.val

Ran(step) == \E i \in 1..Len(probe.log) : probe.log[i].step = step

EndedOrServing ==
    Started /\ probe.pc \in {"returned", "raised", "serving"}

\* C21: start_system.main executes its steps in the order requirements.txt,
\* wound_analysis_model.py, api_server.py, check_python_version,
\* install_requirements, test_model, start_api_server; every step before the
\* last executed one succeeded, a failed step ends the run, pip is not run
\* when a required file is missing, the server is started only after six
\* successful steps; and every run ends or reaches the running server.
C21_StepsInOrderUntilFailure ==
    /\ [](Started =>
            /\ Len(probe.log) <= Len(StartOrder)
            /\ \A i \in 1..Len(probe.log) : probe.log[i].step = StartOrder[i]
            /\ \A i \in 1..(Len(probe.log) - 1) : Succeeded(probe.log[i])
            /\ (Len(probe.log) > 0 /\ ~Succeeded(probe.log[Len(probe.log)]))
                   => probe.pc \in {"returned", "raised"}
            /\ Ran("install_requirements")
                   => \A i \in 1..3 : RequiredFiles[i] \in probe.dir
            /\ Ran("start_api_server")
                   => /\ Len(probe.log) = Len(StartOrder)
                      /\ probe.import = "loaded" /\ probe.pip = "exit 0"
                      /\ ~TupleLess(probe.version_info, <<3, 8>>))
    /\ (Started ~> EndedOrServing)

C21_Witness ==
    /\ Started
    /\ probe.pc = "returned"
    /\ Len(probe.log) = 3
    /\ ~Succeeded(probe.log[3])
    /\ probe.pip = "exit 0" /\ probe.import = "loaded"

MetadataExtracted ==
    /\ "signals" \in DOMAIN probe
    /\ probe.variant = "analyze_base64_metadata"
    /\ Len(probe.signals) > 0

MetadataAsMeasuredOn(metadata, payload) ==
    /\ metadata.data_length = StrLen(payload)
    /\ metadata.size_estimate = (StrLen(payload) * 3) \div 4
    /\ metadata.entropy = Cardinality(Chars(Prefix(payload, 1000)))
    /\ metadata.entropy >= 0
    /\ metadata.entropy <= Min(1000, metadata.data_length)

\* C22: for every input string analyze_base64_metadata returns data_length =
\* the length of the text after the first comma (of the whole string when it
\* has no comma), size_estimate = (data_length * 3) // 4 and entropy = the
\* number of distinct characters among the first 1000 characters of that
\* text, which lies between 0 and min(1000, data_length).
C22_MetadataOfPayload ==
    MetadataExtracted =>
        MetadataAsMeasuredOn(probe.signals[1], ExpectedPayload(probe.buffer))

\* The three-tier rule on scores in hundredths.
RuleStatus(i, s, c) ==
    IF i > 7000 \/ s > 6000 THEN "critical"
    ELSE IF i > 5000 \/ s > 4000 \/ c < 5000 THEN "warning"
    ELSE "good"

\* C23: in every normal-path result of the PIL, OpenCV-lite and metadata
\* variants the reported overall_status is the three-tier rule applied to
\* the reported scores, which are rounded to one decimal.
C23_StatusMatchesReportedScores ==
    (Returned3 /\ call.path = "normal") =>
        call.result.overall_status =
            RuleStatus(call.result.inflammation_score, call.result.swelling_score,
                       call.result.closure_score)

RuleStatusOf(result) ==
    RuleStatus(result.inflammation_score, result.swelling_score, result.closure_score)

FellBack == ReturnedAny /\ call.path = "fallback"

\* The except clause of the pure_python_api endpoint has answered.
EndpointFellBack ==
    /\ request.svc = "pure_python_api"
    /\ response.code = 200
    /\ response.body.processed_regions = "error_fallback"

\* C24: the three-tier rule applied to the scores of a hard-coded fallback
\* result gives that result's overall_status, in all four variants and in
\* the endpoint of pure_python_api.
C24_FallbacksSelfConsistent ==
    /\ FellBack => call.result.overall_status = RuleStatusOf(call.result)
    /\ EndpointFellBack => response.body.overall_status = RuleStatusOf(response.body)
    /\ MetaFallback.overall_status = RuleStatusOf(MetaFallback)

\* C24, amended: the fallbacks of the PIL, OpenCV-lite and metadata variants
\* and of the pure_python_api endpoint report the status the rule gives
\* their scores ('good'); the fallback of WoundAnalysisModel reports 'error'
\* with scores 0, 0, 0, which the rule would classify 'warning'.  No string
\* makes pure_python_analysis enter its except clause, so its fallback is
\* compared as the constant it is.
C24_FallbacksClassifiedExceptError ==
    /\ (FellBack /\ call.fn /= WoundFn) =>
           /\ call.result.overall_status = RuleStatusOf(call.result)
           /\ call.result.overall_status = "good"
    /\ (FellBack /\ call.fn = WoundFn) =>
           /\ call.result.overall_status = "error"
           /\ RuleStatusOf(call.result) = "warning"
    /\ EndpointFellBack =>
           /\ response.body.overall_status = RuleStatusOf(response.body)
           /\ response.body.overall_status = "good"
    /\ MetaFallback.overall_status = RuleStatusOf(MetaFallback)

\* The full variant failing on a string without a comma.
C24_Witness ==
    /\ FellBack
    /\ call.fn = WoundFn
    /\ call.caught = "IndexError"
    /\ RuleStatusOf(call.result) = "warning"

WoundAnalysedNormally == call.fn = WoundFn /\ call.exc = "none" /\ call.path = "normal"

NoLinesOrEmptyMask ==
    \/ call.pic.cv.lines < 0
    \/ detect_wound_region(call.pic).val.wound_area = 0

\* C25: in WoundAnalysisModel an analysis in which HoughLinesP finds no line
\* segment or the wound mask is empty has closure_score 0.0 and a status of
\* 'warning' or 'critical'; a successful analysis is 'good' only if its
\* closure_score is at least 50.
C25_NoClosureIsNeverGood ==
    WoundAnalysedNormally =>
        /\ NoLinesOrEmptyMask =>
               /\ call.raw[3] = 0
               /\ call.result.closure_score = 0
               /\ call.result.overall_status \in {"warning", "critical"}
        /\ call.result.overall_status = "good" => call.result.closure_score >= 5000

\* A picture with a wound region in which no line segment is found.
C25_Witness ==
    /\ WoundAnalysedNormally
    /\ detect_wound_region(call.pic).val.wound_area > 0
    /\ call.pic.cv.lines < 0
    /\ call.result.closure_score = 0
    /\ call.result.overall_status = "warning"

====
